---- MODULE Spec2Model ----
(***************************************************************************)
(* Flight control core of the multirotor firmware: the outer navigation    *)
(* controller (altitude, position, heading, emergency landing, land        *)
(* detector) and the inner rate/attitude PID controller.                   *)
(*                                                                         *)
(* Number representation.  C floats are modelled as fixed-point integers   *)
(* in hundredths (a float x is the integer 100*x, written F(x)); int16     *)
(* fields are plain integers.  Timestamps are the value of micros() in     *)
(* clock ticks of 2^6 microseconds, so that the uint32 wrap at 2^32 us is  *)
(* the wrap of the tick counter at 2^26; every timestamp of the model is a *)
(* multiple of 64 us.                                                      *)
(***************************************************************************)
EXTENDS Integers, Sequences, FiniteSets, TLC

(***************************************************************************)
(* Bounds of the model                                                     *)
(***************************************************************************)
MaxCalls == 3
MaxNavCalls == 2

(***************************************************************************)
(* Program constants                                                       *)
(***************************************************************************)
PID_MAX_OUTPUT == 1000
GYRO_SATURATION_LIMIT == 1800
MIN_POSITION_UPDATE_RATE_HZ == 5
LAND_DETECTOR_TRIGGER_TIME_MS == 2000
NAV_THROTTLE_CUTOFF_FREQENCY_HZ == 4
NAV_ACCEL_CUTOFF_FREQUENCY_HZ == 2
NAV_ACCELERATION_XY_MAX == 980
GRAVITY_CMSS == 98066

(***************************************************************************)
(* Arithmetic helpers                                                      *)
(***************************************************************************)
ABS(x) == IF x > 0 THEN x ELSE -x

\* C division of a by b > 0, rounding toward zero
Quot(a, b) == IF a >= 0 THEN a \div b ELSE -((-a) \div b)

\* the float with integer value x
F(x) == x * 100

\* conversion of a float to an integer type (truncation toward zero)
ToInt(f) == Quot(f, 100)

\* product of two floats
FMul(a, b) == Quot(a * b, 100)

constrain(amt, low, high) ==
    IF amt < low THEN low ELSE IF amt > high THEN high ELSE amt

constrainf(amt, low, high) == constrain(amt, low, high)

\* clock ticks of 64 us in the uint32 microsecond counter: 2^32 / 2^6
ClockWrap == 2^26

\* a duration in microseconds as clock ticks
US2TICKS(us) == us \div (2^6)

\* a (short) duration in clock ticks as microseconds
TICKS2US(t) == t * (2^6)

HZ2US(hz) == 1000000 \div hz

\* a - b in uint32 arithmetic, on clock ticks
\* a - b without the wrap of uint32 arithmetic
SignedSub(a, b) == a - b

U32Sub(a, b) == (a - b) % ClockWrap

\* x * US2S(deltaMicros): a float times a duration in seconds
MulDt(x, deltaMicros) == Quot(x * US2TICKS(deltaMicros), 15625)

\* floor(a * b / c) for a, b >= 0, c > 0, without forming a * b
MulDiv(a, b, c) == (a \div c) * b + ((a % c) * b) \div c

\* integer square root, by bisection on [lo, hi]
RECURSIVE SqrtBetween(_, _, _)
SqrtBetween(n, lo, hi) ==
    IF lo >= hi THEN lo
    ELSE LET mid == (lo + hi + 1) \div 2
         IN  IF mid * mid <= n THEN SqrtBetween(n, mid, hi)
                               ELSE SqrtBetween(n, lo, mid - 1)

\* sqrtf(sq(x) + sq(y)) of two floats
Norm2(x, y) == SqrtBetween(x * x + y * y, 0, 46340)

\* Angles in radians are fixed-point in 1/10000 rad.
\* atan2_approx(y, x): polynomial approximation of atan on the ratio min/max
atan2_approx(y, x) ==
    LET absX == ABS(x)
        absY == ABS(y)
        hi == IF absX > absY THEN absX ELSE absY
        lo == IF absX > absY THEN absY ELSE absX
        ratio == IF hi # 0 THEN MulDiv(lo, 10000, hi) ELSE 0
        poly == (ratio * (7854 + (273 * (10000 - ratio)) \div 1000)) \div 10000
        r1 == IF absY > absX THEN 15708 - poly ELSE poly
        r2 == IF x < 0 THEN 31416 - r1 ELSE r1
    IN  IF y < 0 THEN -r2 ELSE r2

\* cos_approx(x) for |x| <= pi, as a factor in 1/10000
cos_approx(x) ==
    LET x2 == (x * x) \div 10000
        x4 == (x2 * x2) \div 10000
        x6 == (x4 * x2) \div 10000
    IN  10000 - x2 \div 2 + x4 \div 24 - x6 \div 720

RADIANS_TO_DECIDEGREES(angle) == Quot(angle * 5730, 100000)

CENTIDEGREES_TO_DEGREES(angle) == Quot(angle, 100)

DEGREES_TO_DECIDEGREES(angle) == angle * 10

\* wrap_18000: an angle in centidegrees into (-18000, 18000]
wrap_18000(angle) ==
    LET a == IF angle > 18000 THEN angle - 36000 ELSE angle
    IN  IF a < -18000 THEN a + 36000 ELSE a

\* PT1 low-pass filter: state + dT / (RC + dT) * (input - state), RC = 1 / (2 pi f_cut)
filterApplyPt1(input, state, f_cut, deltaMicros) ==
    LET RC == 159155 \div f_cut
    IN  state + Quot((input - state) * US2TICKS(deltaMicros),
                     US2TICKS(RC) + US2TICKS(deltaMicros))

(***************************************************************************)
(* Axes, flags and modes                                                   *)
(***************************************************************************)
NAV_CTL_ALT == "NAV_CTL_ALT"
NAV_CTL_POS == "NAV_CTL_POS"
NAV_CTL_YAW == "NAV_CTL_YAW"
NAV_CTL_EMERG == "NAV_CTL_EMERG"
NAV_AUTO_WP == "NAV_AUTO_WP"

NAV_GPS_ATTI == "NAV_GPS_ATTI"
NAV_GPS_CRUISE == "NAV_GPS_CRUISE"

CLIMB_RATE_KEEP_SURFACE_TARGET == "CLIMB_RATE_KEEP_SURFACE_TARGET"
CLIMB_RATE_RESET_SURFACE_TARGET == "CLIMB_RATE_RESET_SURFACE_TARGET"
CLIMB_RATE_UPDATE_SURFACE_TARGET == "CLIMB_RATE_UPDATE_SURFACE_TARGET"

VARIABLES
    uptime,                         \* clock ticks since boot, not wrapped (micros() is uptime mod 2^32 us)
    ncalls,                         \* number of operations performed so far
    cfg,                            \* the configuration in force (escAndServoConfig, navConfig, ...)
    posControl,                     \* navigation state shared with the estimator and the state machine
    rcCommand,                      \* stick commands, rewritten by the navigation controllers
    rcCommandAdjustedThrottle,
    altHoldThrottleRCZero,
    altholdThrottleFilterState,
    prepareForTakeoffOnReset,
    altitudeTimes,                  \* statics of applyMulticopterAltitudeController
    positionTimes,                  \* statics of applyMulticopterPositionController
    emergencyTimes,                 \* statics of applyMulticopterEmergencyLandingController
    mcPosControllerAccFilterState,  \* X and Y
    lastAccelTarget,                \* X and Y
    magHoldTargetHeading,
    landingTimer,                   \* land detector state, owned by the caller
    hasHadSomeVelocity,
    lastViolation,                  \* history: uptime of the last poll that cleared the landing timer
    pidState,                       \* rate controller state of ROLL, PITCH and YAW
    axisPID,
    tpaFactor,
    magHoldRateFilter,              \* static of pidMagHold
    call                            \* the last operation: its name, arguments, result and the stages it ran

vars == <<uptime, ncalls, cfg, posControl, rcCommand, rcCommandAdjustedThrottle,
          altHoldThrottleRCZero, altholdThrottleFilterState, prepareForTakeoffOnReset,
          altitudeTimes, positionTimes, emergencyTimes, mcPosControllerAccFilterState,
          lastAccelTarget, magHoldTargetHeading, landingTimer, hasHadSomeVelocity,
          lastViolation, pidState, axisPID, tpaFactor, magHoldRateFilter, call>>

landVars == <<landingTimer, hasHadSomeVelocity, lastViolation>>

pidVars == <<pidState, axisPID, tpaFactor, magHoldRateFilter>>

\* micros(): the uint32 microsecond counter
micros == uptime % ClockWrap

(***************************************************************************)
(* The navigation controller's program state as one value, so that the     *)
(* functions of the source compose; env holds what the collaborators       *)
(* (failsafe, navigation state machine) answer during the call and log     *)
(* lists the stages the call runs.                                         *)
(***************************************************************************)
Machine(env) ==
    [env |-> env,
     cfg |-> cfg,
     posControl |-> posControl,
     rcCommand |-> rcCommand,
     rcCommandAdjustedThrottle |-> rcCommandAdjustedThrottle,
     altHoldThrottleRCZero |-> altHoldThrottleRCZero,
     altholdThrottleFilterState |-> altholdThrottleFilterState,
     prepareForTakeoffOnReset |-> prepareForTakeoffOnReset,
     altitudeTimes |-> altitudeTimes,
     positionTimes |-> positionTimes,
     emergencyTimes |-> emergencyTimes,
     mcPosControllerAccFilterState |-> mcPosControllerAccFilterState,
     lastAccelTarget |-> lastAccelTarget,
     magHoldTargetHeading |-> magHoldTargetHeading,
     log |-> <<>>]

Logged(m, stage, arg) == [m EXCEPT !.log = Append(@, [stage |-> stage, arg |-> arg])]

\* the log entries of a call that name one of the given stages
Ran(log, stages) == {i \in DOMAIN log : log[i].stage \in stages}

(***************************************************************************)
(* Navigation PID objects (pidController_t) and the altitude target        *)
(***************************************************************************)
navPidReset(pid) == [pid EXCEPT !.integrator = 0, !.last_input = 0]

\* PID with output limits and back-calculation anti-windup; returns the
\* constrained output and the updated PID object
navPidApply2(setpoint, measurement, deltaMicros, pid, outMin, outMax) ==
    LET error == setpoint - measurement
        newProportional == FMul(error, pid.param.kP)
        outVal == newProportional + pid.integrator
        outValConstrained == constrainf(outVal, outMin, outMax)
        integrator == pid.integrator + MulDt(FMul(error, pid.param.kI), deltaMicros)
                        + MulDt(FMul(outValConstrained - outVal, pid.param.kT), deltaMicros)
    IN  [out |-> outValConstrained,
         pid |-> [pid EXCEPT !.integrator = integrator, !.last_input = measurement]]

\* the altitude target that yields the given climb rate through the position P-controller
updateAltitudeTargetFromClimbRate(m, climbRate, mode) ==
    LET pc == m.posControl
        surface ==
            IF mode = CLIMB_RATE_RESET_SURFACE_TARGET THEN F(-1)
            ELSE IF mode = CLIMB_RATE_UPDATE_SURFACE_TARGET
                    /\ pc.flags.isTerrainFollowEnabled
                    /\ pc.actualState.surface >= 0 /\ pc.flags.hasValidSurfaceSensor
                 THEN constrainf(pc.actualState.surface
                                   + Quot(Quot(climbRate * 100, pc.pids.pos.Z.param.kP) * 100,
                                          pc.pids.surface.param.kP),
                                 F(1), F(200))
                 ELSE pc.desiredState.surface
        posZ == pc.actualState.pos.Z + Quot(climbRate * 100, pc.pids.pos.Z.param.kP)
    IN  Logged([m EXCEPT !.posControl.desiredState.surface = surface,
                         !.posControl.desiredState.pos.Z = posZ],
               "updateAltitudeTargetFromClimbRate", <<climbRate, mode>>)

(***************************************************************************)
(* Altitude controller for multicopter aircraft                            *)
(***************************************************************************)
\* surface tracking that holds the altitude target while the surface reading is invalid
updateSurfaceTrackingAltitudeSetpointHolding(m, deltaMicros) ==
    LET pc == m.posControl
        m1 == Logged(m, "updateSurfaceTrackingAltitudeSetpoint", deltaMicros)
    IN  IF pc.flags.isTerrainFollowEnabled /\ pc.desiredState.surface >= 0
           /\ pc.actualState.surface >= 0 /\ pc.flags.hasValidSurfaceSensor
        THEN LET r == navPidApply2(pc.desiredState.surface, pc.actualState.surface,
                                   deltaMicros, pc.pids.surface, F(-5), F(35))
             IN  [m1 EXCEPT !.posControl.pids.surface = r.pid,
                            !.posControl.desiredState.pos.Z = pc.actualState.pos.Z + r.out]
        ELSE m1

\* Calculate global altitude setpoint based on surface setpoint
updateSurfaceTrackingAltitudeSetpoint(m, deltaMicros) ==
    LET pc == m.posControl
        m1 == Logged(m, "updateSurfaceTrackingAltitudeSetpoint", deltaMicros)
    IN  IF pc.flags.isTerrainFollowEnabled /\ pc.desiredState.surface >= 0
        THEN IF pc.actualState.surface >= 0 /\ pc.flags.hasValidSurfaceSensor
             THEN LET r == navPidApply2(pc.desiredState.surface, pc.actualState.surface,
                                        deltaMicros, pc.pids.surface, F(-5), F(35))
                  IN  [m1 EXCEPT !.posControl.pids.surface = r.pid,
                                 !.posControl.desiredState.pos.Z = pc.actualState.pos.Z + r.out]
             ELSE updateAltitudeTargetFromClimbRate(m1, F(-20), CLIMB_RATE_KEEP_SURFACE_TARGET)
        ELSE m1

\* Position to velocity controller for Z axis, without the acceleration limit
updateAltitudeVelocityControllerUnlimited(m, deltaMicros) ==
    LET pc == m.posControl
        altitudeError == pc.desiredState.pos.Z - pc.actualState.pos.Z
        targetVel == constrainf(FMul(altitudeError, pc.pids.pos.Z.param.kP), F(-2000), F(2000))
    IN  Logged([m EXCEPT !.posControl.desiredState.vel.Z = targetVel],
               "updateAltitudeVelocityController_MC", deltaMicros)

\* Position to velocity controller for Z axis
updateAltitudeVelocityController_MC(m, deltaMicros) ==
    LET pc == m.posControl
        altitudeError == pc.desiredState.pos.Z - pc.actualState.pos.Z
        targetVel == constrainf(FMul(altitudeError, pc.pids.pos.Z.param.kP), F(-2000), F(2000))
        maxVelDifference == MulDt(F(250), deltaMicros)
        velZ == constrainf(targetVel, pc.desiredState.vel.Z - maxVelDifference,
                                      pc.desiredState.vel.Z + maxVelDifference)
    IN  Logged([m EXCEPT !.posControl.desiredState.vel.Z = velZ],
               "updateAltitudeVelocityController_MC", deltaMicros)

\* Calculate min and max throttle boundaries (to compensate for integral windup)
ThrottleAdjustmentMinBelowIdle(m) == -m.cfg.mc_hover_throttle

ThrottleAdjustmentMin(m) == m.cfg.minthrottle - m.cfg.mc_hover_throttle

ThrottleAdjustmentMax(m) == m.cfg.maxthrottle - m.cfg.mc_hover_throttle

updateAltitudeThrottleController_MC(m, deltaMicros) ==
    LET pc == m.posControl
        thrAdjustmentMin == ThrottleAdjustmentMin(m)
        thrAdjustmentMax == ThrottleAdjustmentMax(m)
        r == navPidApply2(pc.desiredState.vel.Z, pc.actualState.vel.Z, deltaMicros,
                          pc.pids.vel.Z, F(thrAdjustmentMin), F(thrAdjustmentMax))
        adj1 == ToInt(r.out)
        filt == filterApplyPt1(F(adj1), m.altholdThrottleFilterState,
                               NAV_THROTTLE_CUTOFF_FREQENCY_HZ, deltaMicros)
        adj2 == ToInt(filt)
        adj3 == constrain(adj2, thrAdjustmentMin, thrAdjustmentMax)
    IN  Logged([m EXCEPT !.posControl.pids.vel.Z = r.pid,
                         !.altholdThrottleFilterState = filt,
                         !.posControl.rcAdjustment.THROTTLE = adj3],
               "updateAltitudeThrottleController_MC", deltaMicros)

resetMulticopterAltitudeControllerKeepingTakeoffPending(m) ==
    LET pc == m.posControl
        velZ == navPidReset(pc.pids.vel.Z)
    IN  Logged([m EXCEPT !.posControl.pids.vel.Z =
                             IF m.prepareForTakeoffOnReset
                             THEN [velZ EXCEPT !.integrator = F(-500)] ELSE velZ,
                         !.posControl.pids.surface = navPidReset(pc.pids.surface),
                         !.altholdThrottleFilterState = 0,
                         !.posControl.desiredState.vel.Z = pc.actualState.vel.Z,
                         !.posControl.rcAdjustment.THROTTLE = 0],
               "resetMulticopterAltitudeController", 0)

resetMulticopterAltitudeController(m) ==
    LET pc == m.posControl
        velZ == navPidReset(pc.pids.vel.Z)
    IN  Logged([m EXCEPT !.posControl.pids.vel.Z =
                             IF m.prepareForTakeoffOnReset
                             THEN [velZ EXCEPT !.integrator = F(-500)] ELSE velZ,
                         !.posControl.pids.surface = navPidReset(pc.pids.surface),
                         !.altholdThrottleFilterState = 0,
                         !.posControl.desiredState.vel.Z = pc.actualState.vel.Z,
                         !.posControl.rcAdjustment.THROTTLE = 0,
                         !.prepareForTakeoffOnReset = FALSE],
               "resetMulticopterAltitudeController", 0)

\* rcCommand[THROTTLE] of the altitude controller: hover throttle plus adjustment, constrained
AltitudeThrottleCommandMisplacedClamp(m) ==
    m.cfg.mc_hover_throttle
      + constrain(m.posControl.rcAdjustment.THROTTLE, m.cfg.minthrottle, m.cfg.maxthrottle)

AltitudeThrottleCommand(m) ==
    constrain(m.cfg.mc_hover_throttle + m.posControl.rcAdjustment.THROTTLE,
              m.cfg.minthrottle, m.cfg.maxthrottle)

\* the stale-tick test of the controllers
IsStaleTickInMillis(deltaTicks) ==
    deltaTicks > US2TICKS(HZ2US(MIN_POSITION_UPDATE_RATE_HZ) * 1000)

IsStaleTick(deltaTicks) == deltaTicks > US2TICKS(HZ2US(MIN_POSITION_UPDATE_RATE_HZ))

\* the test that a fresh sample is recent enough to integrate over
IsUsableUpdateInclusive(deltaTicks) == deltaTicks <= US2TICKS(HZ2US(MIN_POSITION_UPDATE_RATE_HZ))

IsUsableUpdate(deltaTicks) == deltaTicks < US2TICKS(HZ2US(MIN_POSITION_UPDATE_RATE_HZ))

applyMulticopterAltitudeController(m0, currentTime) ==
    LET m == Logged(m0, "applyMulticopterAltitudeController", 0)
        deltaMicros == U32Sub(currentTime, m.altitudeTimes.previousTimeUpdate)
    IN  IF IsStaleTick(deltaMicros)
        THEN resetMulticopterAltitudeController(
                 [m EXCEPT !.altitudeTimes = [previousTimeUpdate |-> currentTime,
                                              previousTimePositionUpdate |-> currentTime]])
        ELSE LET m1 == [m EXCEPT !.altitudeTimes.previousTimeUpdate = currentTime]
                 deltaMicrosPositionUpdate ==
                     U32Sub(currentTime, m.altitudeTimes.previousTimePositionUpdate)
                 dt == TICKS2US(deltaMicrosPositionUpdate)
                 m2 == IF m1.posControl.flags.verticalPositionDataNew
                       THEN LET m3 == [m1 EXCEPT !.altitudeTimes.previousTimePositionUpdate = currentTime]
                                m4 == IF IsUsableUpdate(deltaMicrosPositionUpdate)
                                      THEN updateAltitudeThrottleController_MC(
                                               updateAltitudeVelocityController_MC(
                                                   updateSurfaceTrackingAltitudeSetpoint(m3, dt), dt), dt)
                                      ELSE resetMulticopterAltitudeController(m3)
                            IN  [m4 EXCEPT !.posControl.flags.verticalPositionDataConsumed = TRUE]
                       ELSE m1
                 \* Update throttle controller; save processed throttle for future use
                 publish(mc) ==
                     [mc EXCEPT !.rcCommand.THROTTLE = AltitudeThrottleCommand(mc),
                                !.rcCommandAdjustedThrottle = AltitudeThrottleCommand(mc)]
             IN  publish(m2)


(***************************************************************************)
(* Inner-loop conversions used by the navigation controller                *)
(***************************************************************************)
pidRcCommandToAngle(stick) == stick * 2

\* int16 result of angleDeciDegrees / 2.0f
pidAngleToRcCommandFromDegrees(angleDeciDegrees) == Quot(angleDeciDegrees, 20)

pidAngleToRcCommand(angleDeciDegrees) == Quot(angleDeciDegrees, 2)

updateMagHoldHeadingIgnored(m, heading) == m

updateMagHoldHeading(m, heading) == [m EXCEPT !.magHoldTargetHeading = heading]

(***************************************************************************)
(* XY-position controller for multicopter aircraft                         *)
(***************************************************************************)
\* Calculate loiter target based on current position and velocity
calculateMulticopterInitialHoldPositionAtVehicle(m) ==
    [X |-> m.posControl.actualState.pos.X, Y |-> m.posControl.actualState.pos.Y]

calculateMulticopterInitialHoldPosition(m) ==
    LET actual == m.posControl.actualState
        stoppingDistanceX == FMul(actual.vel.X, m.posControl.posDecelerationTime)
        stoppingDistanceY == FMul(actual.vel.Y, m.posControl.posDecelerationTime)
    IN  [X |-> actual.pos.X + stoppingDistanceX, Y |-> actual.pos.Y + stoppingDistanceY]

resetMulticopterPositionController(m) ==
    Logged([m EXCEPT !.posControl.pids.vel.X = navPidReset(@),
                     !.posControl.pids.vel.Y = navPidReset(@),
                     !.posControl.rcAdjustment.ROLL = 0,
                     !.posControl.rcAdjustment.PITCH = 0,
                     !.mcPosControllerAccFilterState = [X |-> 0, Y |-> 0],
                     !.lastAccelTarget = [X |-> 0, Y |-> 0]],
           "resetMulticopterPositionController", 0)

getVelocityHeadingAttenuationFactor(m) ==
    IF NAV_AUTO_WP \in m.env.navStateFlags
    THEN LET headingError == constrain(wrap_18000(m.posControl.desiredState.yaw
                                                    - m.posControl.actualState.yaw), -9000, 9000)
             \* CENTIDEGREES_TO_RADIANS, in 1/10000 rad
             velScaling == cos_approx(Quot(headingError * 1745, 1000))
         IN  constrainf(Quot(velScaling * velScaling, 1000000), 5, 100)
    ELSE 100

getVelocityExpoAttenuationFactor(m, velTotal, velMax) ==
    LET velScale == constrainf(Quot(velTotal * 100, velMax), 1, 100)
    IN  100 - FMul(m.posControl.posResponseExpo, 100 - FMul(velScale, velScale))

updatePositionVelocityController_MC(m) ==
    LET pc == m.posControl
        posErrorX == pc.desiredState.pos.X - pc.actualState.pos.X
        posErrorY == pc.desiredState.pos.Y - pc.actualState.pos.Y
        velX == FMul(posErrorX, pc.pids.pos.X.param.kP)
        velY == FMul(posErrorY, pc.pids.pos.Y.param.kP)
        maxSpeed == m.env.activeWaypointSpeed
        velTotal == Norm2(velX, velY)
        over == velTotal > maxSpeed
        newVelX == IF over THEN Quot(maxSpeed * velX, velTotal) ELSE velX
        newVelY == IF over THEN Quot(maxSpeed * velY, velTotal) ELSE velY
        newVelTotal == IF over THEN maxSpeed ELSE velTotal
        velHeadFactor == getVelocityHeadingAttenuationFactor(m)
        velExpoFactor == getVelocityExpoAttenuationFactor(m, newVelTotal, maxSpeed)
    IN  Logged([m EXCEPT !.posControl.desiredState.vel.X = FMul(FMul(newVelX, velHeadFactor), velExpoFactor),
                         !.posControl.desiredState.vel.Y = FMul(FMul(newVelY, velHeadFactor), velExpoFactor)],
               "updatePositionVelocityController_MC", 0)

\* int16 maxBankAngle and the constrained banking angle in decidegrees
BankAngleUnconstrained(m, angle) == RADIANS_TO_DECIDEGREES(angle)

BankAngle(m, angle) ==
    LET maxBankAngle == DEGREES_TO_DECIDEGREES(m.cfg.mc_max_bank_angle)
    IN  constrain(RADIANS_TO_DECIDEGREES(angle), -maxBankAngle, maxBankAngle)

updatePositionAccelController_MC(m, deltaMicros, maxAccelLimit) ==
    LET pc == m.posControl
        velErrorX == pc.desiredState.vel.X - pc.actualState.vel.X
        velErrorY == pc.desiredState.vel.Y - pc.actualState.vel.Y
        velErrorMagnitude == Norm2(velErrorX, velErrorY)
        accelLimitX == IF velErrorMagnitude > 10
                       THEN MulDiv(maxAccelLimit, ABS(velErrorX), velErrorMagnitude)
                       ELSE Quot(maxAccelLimit * 10000, 14142)
        accelLimitY == IF velErrorMagnitude > 10
                       THEN MulDiv(maxAccelLimit, ABS(velErrorY), velErrorMagnitude)
                       ELSE accelLimitX
        maxAccelChange == MulDt(F(1700), deltaMicros)
        accelLimitXMin == constrainf(m.lastAccelTarget.X - maxAccelChange, -accelLimitX, accelLimitX)
        accelLimitXMax == constrainf(m.lastAccelTarget.X + maxAccelChange, -accelLimitX, accelLimitX)
        accelLimitYMin == constrainf(m.lastAccelTarget.Y - maxAccelChange, -accelLimitY, accelLimitY)
        accelLimitYMax == constrainf(m.lastAccelTarget.Y + maxAccelChange, -accelLimitY, accelLimitY)
        rX == navPidApply2(pc.desiredState.vel.X, pc.actualState.vel.X, deltaMicros,
                           pc.pids.vel.X, accelLimitXMin, accelLimitXMax)
        rY == navPidApply2(pc.desiredState.vel.Y, pc.actualState.vel.Y, deltaMicros,
                           pc.pids.vel.Y, accelLimitYMin, accelLimitYMax)
        accelN == filterApplyPt1(rX.out, m.mcPosControllerAccFilterState.X,
                                 NAV_ACCEL_CUTOFF_FREQUENCY_HZ, deltaMicros)
        accelE == filterApplyPt1(rY.out, m.mcPosControllerAccFilterState.Y,
                                 NAV_ACCEL_CUTOFF_FREQUENCY_HZ, deltaMicros)
        accelForward == FMul(accelN, pc.actualState.cosYaw) + FMul(accelE, pc.actualState.sinYaw)
        accelRight == FMul(-accelN, pc.actualState.sinYaw) + FMul(accelE, pc.actualState.cosYaw)
        desiredPitch == atan2_approx(accelForward, GRAVITY_CMSS)
        desiredRoll == atan2_approx(Quot(accelRight * cos_approx(desiredPitch), 10000), GRAVITY_CMSS)
    IN  Logged([m EXCEPT !.posControl.pids.vel.X = rX.pid,
                         !.posControl.pids.vel.Y = rY.pid,
                         !.lastAccelTarget = [X |-> rX.out, Y |-> rY.out],
                         !.mcPosControllerAccFilterState = [X |-> accelN, Y |-> accelE],
                         !.posControl.rcAdjustment.ROLL = BankAngle(m, desiredRoll),
                         !.posControl.rcAdjustment.PITCH = BankAngle(m, desiredPitch)],
               "updatePositionAccelController_MC", deltaMicros)

\* No position data, disable automatic adjustment, rcCommand passthrough
DisableAutomaticAdjustmentKeepingOutputs(m) == m

DisableAutomaticAdjustment(m) ==
    [m EXCEPT !.posControl.rcAdjustment.PITCH = 0,
              !.posControl.rcAdjustment.ROLL = 0]

\* We should passthrough rcCommand is adjusting position in GPS_ATTI mode
BypassPositionControllerInCruise(m) ==
    m.cfg.user_control_mode = NAV_GPS_CRUISE /\ m.posControl.flags.isAdjustingPosition

BypassPositionController(m) ==
    m.cfg.user_control_mode = NAV_GPS_ATTI /\ m.posControl.flags.isAdjustingPosition

applyMulticopterPositionController(m0, currentTime) ==
    LET m == Logged(m0, "applyMulticopterPositionController", 0)
        deltaMicros == U32Sub(currentTime, m.positionTimes.previousTimeUpdate)
        bypassPositionController == BypassPositionController(m)
    IN  IF IsStaleTick(deltaMicros)
        THEN resetMulticopterPositionController(
                 [m EXCEPT !.positionTimes = [previousTimeUpdate |-> currentTime,
                                              previousTimePositionUpdate |-> currentTime]])
        ELSE LET m1 == [m EXCEPT !.positionTimes.previousTimeUpdate = currentTime]
                 deltaMicrosPositionUpdate ==
                     U32Sub(currentTime, m.positionTimes.previousTimePositionUpdate)
                 dt == TICKS2US(deltaMicrosPositionUpdate)
                 m2 == IF m1.posControl.flags.hasValidPositionSensor
                       THEN IF m1.posControl.flags.horizontalPositionDataNew
                            THEN LET m3 == [m1 EXCEPT !.positionTimes.previousTimePositionUpdate = currentTime]
                                     m4 == IF ~bypassPositionController
                                           THEN IF IsUsableUpdate(deltaMicrosPositionUpdate)
                                                THEN updatePositionAccelController_MC(
                                                         updatePositionVelocityController_MC(m3),
                                                         dt, F(NAV_ACCELERATION_XY_MAX))
                                                ELSE resetMulticopterPositionController(m3)
                                           ELSE m3
                                 IN  [m4 EXCEPT !.posControl.flags.horizontalPositionDataConsumed = TRUE]
                            ELSE m1
                       ELSE DisableAutomaticAdjustment(m1)
                 bypass == bypassPositionController \/ ~m1.posControl.flags.hasValidPositionSensor
                 command(mc) ==
                     IF ~bypass
                     THEN [mc EXCEPT !.rcCommand.PITCH = pidAngleToRcCommand(mc.posControl.rcAdjustment.PITCH),
                                     !.rcCommand.ROLL = pidAngleToRcCommand(mc.posControl.rcAdjustment.ROLL)]
                     ELSE mc
             IN  command(m2)

(***************************************************************************)
(* Multicopter emergency landing                                           *)
(***************************************************************************)
\* Sensors has gone haywire, attempt to land regardless
EmergencyOpenLoopThrottleIgnoringFailsafe(m) == m.cfg.minthrottle

EmergencyOpenLoopThrottle(m) ==
    IF m.env.failsafeConfigActive THEN m.cfg.failsafe_throttle ELSE m.cfg.minthrottle

applyMulticopterEmergencyLandingController(m0, currentTime) ==
    LET deltaMicros == U32Sub(currentTime, m0.emergencyTimes.previousTimeUpdate)
        m == [Logged(m0, "applyMulticopterEmergencyLandingController", 0)
                EXCEPT !.emergencyTimes.previousTimeUpdate = currentTime,
                       !.rcCommand.ROLL = 0, !.rcCommand.PITCH = 0, !.rcCommand.YAW = 0]
    IN  IF m.posControl.flags.hasValidAltitudeSensor
        THEN IF IsStaleTick(deltaMicros)
             THEN resetMulticopterAltitudeController(
                      [m EXCEPT !.emergencyTimes.previousTimePositionUpdate = currentTime])
             ELSE LET deltaMicrosPositionUpdate ==
                          U32Sub(currentTime, m.emergencyTimes.previousTimePositionUpdate)
                      dt == TICKS2US(deltaMicrosPositionUpdate)
                      m2 == IF m.posControl.flags.verticalPositionDataNew
                            THEN LET m3 == [m EXCEPT !.emergencyTimes.previousTimePositionUpdate = currentTime]
                                     m4 == IF IsUsableUpdate(deltaMicrosPositionUpdate)
                                           THEN updateAltitudeThrottleController_MC(
                                                    updateAltitudeVelocityController_MC(
                                                        updateAltitudeTargetFromClimbRate(
                                                            m3, -m3.cfg.emerg_descent_rate,
                                                            CLIMB_RATE_RESET_SURFACE_TARGET), dt), dt)
                                           ELSE resetMulticopterAltitudeController(m3)
                                 IN  [m4 EXCEPT !.posControl.flags.verticalPositionDataConsumed = TRUE]
                            ELSE m
                      \* Update throttle controller
                      publish(mc) == [mc EXCEPT !.rcCommand.THROTTLE = AltitudeThrottleCommand(mc)]
                  IN  publish(m2)
        ELSE [m EXCEPT !.rcCommand.THROTTLE = EmergencyOpenLoopThrottle(m)]

(***************************************************************************)
(* Heading controller and the dispatcher                                   *)
(***************************************************************************)
\* the heading controller of resetMulticopterHeadingController: holds the current yaw
applyMulticopterHeadingControllerAtActualYaw(m) ==
    updateMagHoldHeading(Logged(m, "applyMulticopterHeadingController", 0),
                         CENTIDEGREES_TO_DEGREES(m.posControl.actualState.yaw))

applyMulticopterHeadingController(m) ==
    updateMagHoldHeading(Logged(m, "applyMulticopterHeadingController", 0),
                         CENTIDEGREES_TO_DEGREES(m.posControl.desiredState.yaw))

applyMulticopterNavigationControllerFallThrough(m, navStateFlags, currentTime) ==
    LET emergency(m0) == IF NAV_CTL_EMERG \in navStateFlags
                         THEN applyMulticopterEmergencyLandingController(m0, currentTime) ELSE m0
        altitude(m0) == IF NAV_CTL_ALT \in navStateFlags
                        THEN applyMulticopterAltitudeController(m0, currentTime) ELSE m0
        position(m1) == IF NAV_CTL_POS \in navStateFlags
                        THEN applyMulticopterPositionController(m1, currentTime) ELSE m1
        heading(m2) == IF NAV_CTL_YAW \in navStateFlags
                       THEN applyMulticopterHeadingController(m2) ELSE m2
    IN  heading(position(altitude(emergency(m))))

applyMulticopterNavigationController(m, navStateFlags, currentTime) ==
    IF NAV_CTL_EMERG \in navStateFlags
    THEN applyMulticopterEmergencyLandingController(m, currentTime)
    ELSE LET altitude(m0) == IF NAV_CTL_ALT \in navStateFlags
                             THEN applyMulticopterAltitudeController(m0, currentTime) ELSE m0
             position(m1) == IF NAV_CTL_POS \in navStateFlags
                             THEN applyMulticopterPositionController(m1, currentTime) ELSE m1
             heading(m2) == IF NAV_CTL_YAW \in navStateFlags
                            THEN applyMulticopterHeadingController(m2) ELSE m2
         IN  heading(position(altitude(m)))

(***************************************************************************)
(* Altitude controller set-up (on arming / mode entry)                     *)
(***************************************************************************)
\* Make sure we are able to satisfy the deadband
AltHoldThrottleZeroWithoutDeadband(m, zero) ==
    constrain(zero, m.cfg.minthrottle, m.cfg.maxthrottle)

AltHoldThrottleZero(m, zero) ==
    constrain(zero,
              m.cfg.minthrottle + m.cfg.alt_hold_deadband + 10,
              m.cfg.maxthrottle - m.cfg.alt_hold_deadband - 10)

(***************************************************************************)
(* Pilot override of the altitude target                                   *)
(***************************************************************************)
RcThrottleAdjustment(m) == m.rcCommand.THROTTLE - m.altHoldThrottleRCZero

\* Make sure we can satisfy max_manual_climb_rate in both up and down
\* directions: integer arithmetic, the quotient converted to float
RcClimbRateSymmetric(m) ==
    F(Quot(RcThrottleAdjustment(m) * m.cfg.max_manual_climb_rate,
           m.cfg.maxthrottle - m.altHoldThrottleRCZero))

RcClimbRate(m) ==
    IF RcThrottleAdjustment(m) > 0
    THEN \* Scaling from altHoldThrottleRCZero to maxthrottle
         F(Quot(RcThrottleAdjustment(m) * m.cfg.max_manual_climb_rate,
                m.cfg.maxthrottle - m.altHoldThrottleRCZero))
    ELSE \* Scaling from minthrottle to altHoldThrottleRCZero
         F(Quot(RcThrottleAdjustment(m) * m.cfg.max_manual_climb_rate,
                m.altHoldThrottleRCZero - m.cfg.minthrottle))

\* the return value of adjustMulticopterAltitudeFromRCInput
IsAltitudeAdjusted(m) == ABS(RcThrottleAdjustment(m)) > m.cfg.alt_hold_deadband

adjustMulticopterAltitudeFromRCInputLockingAlways(m0) ==
    LET m == Logged(m0, "adjustMulticopterAltitudeFromRCInput", 0)
    IN  IF IsAltitudeAdjusted(m)
        THEN updateAltitudeTargetFromClimbRate(m, RcClimbRate(m), CLIMB_RATE_UPDATE_SURFACE_TARGET)
        ELSE updateAltitudeTargetFromClimbRate(m, 0, CLIMB_RATE_UPDATE_SURFACE_TARGET)

adjustMulticopterAltitudeFromRCInput(m0) ==
    LET m == Logged(m0, "adjustMulticopterAltitudeFromRCInput", 0)
    IN  IF IsAltitudeAdjusted(m)
        THEN \* set velocity proportional to stick movement
             updateAltitudeTargetFromClimbRate(m, RcClimbRate(m), CLIMB_RATE_UPDATE_SURFACE_TARGET)
        ELSE \* Adjusting finished - reset desired position to stay exactly where pilot released the stick
             IF m.posControl.flags.isAdjustingAltitude
             THEN updateAltitudeTargetFromClimbRate(m, 0, CLIMB_RATE_UPDATE_SURFACE_TARGET)
             ELSE m

setupMulticopterAltitudeController(m) ==
    LET throttleStatus == m.env.throttleStatus
        zero == IF m.cfg.use_thr_mid_for_althold \/ throttleStatus = "THROTTLE_LOW"
                THEN m.env.rcLookupThrottleMid
                ELSE m.rcCommand.THROTTLE
    IN  [m EXCEPT !.altHoldThrottleRCZero = AltHoldThrottleZero(m, zero),
                  !.prepareForTakeoffOnReset = (throttleStatus = "THROTTLE_LOW") \/ @]

(***************************************************************************)
(* Multicopter land detector                                               *)
(***************************************************************************)
\* the conditions of a possible landing other than the descent latch
LandingConditions(m) ==
    LET as == m.posControl.actualState
        verticalMovement == ABS(as.vel.Z) > F(25)
        horizontalMovement == as.velXY > F(100)
        minimalThrust == m.rcCommandAdjustedThrottle < m.cfg.mc_min_fly_throttle
        surfaceOk == IF m.posControl.flags.hasValidSurfaceSensor
                        /\ as.surface >= 0 /\ as.surfaceMin >= 0
                     THEN as.surface <= as.surfaceMin + F(5)
                     ELSE TRUE
    IN  minimalThrust /\ ~verticalMovement /\ ~horizontalMovement /\ surfaceOk

\* the trigger test of the land detector, on clock ticks
LandingTimeElapsedOrEqual(currentTime, timer) ==
    U32Sub(currentTime, timer) >= US2TICKS(LAND_DETECTOR_TRIGGER_TIME_MS * 1000)

LandingTimeElapsed(currentTime, timer) ==
    U32Sub(currentTime, timer) > US2TICKS(LAND_DETECTOR_TRIGGER_TIME_MS * 1000)

\* returns the result and the new values of *landingTimer and *hasHadSomeVelocity
isMulticopterLandingDetected(m, currentTime, timer, hadVelocity) ==
    LET latched == hadVelocity \/ m.posControl.actualState.vel.Z < F(-25)
        \* `hasHadSomeVelocity &&`: the test is of the pointer, which the caller never passes null
        pointerTest == TRUE
        possibleLandingDetected == pointerTest /\ LandingConditions(m)
    IN  IF ~possibleLandingDetected
        THEN [result |-> FALSE, landingTimer |-> currentTime, hasHadSomeVelocity |-> latched]
        ELSE [result |-> LandingTimeElapsed(currentTime, timer),
              landingTimer |-> timer, hasHadSomeVelocity |-> latched]

(***************************************************************************)
(* Inner rate/attitude controller (pid.c).  Floats are fixed-point in      *)
(* hundredths, kD in millionths, dT in microseconds; errorGyroIf,          *)
(* errorGyroIfLimit and kT may be NaN.                                     *)
(***************************************************************************)
Axes == {"ROLL", "PITCH", "YAW"}

\* a float that may be NaN: <<v>> is the number v, <<>> is NaN
NaN == <<>>
Fin(v) == <<v>>
IsNaN(x) == x = NaN
Val(x) == x[1]

\* pidState_t as the start-up code zeroes it
InitialPidState ==
    [kP |-> 0, kI |-> 0, kD |-> 0, kT |-> Fin(0),
     gyroRate |-> 0, rateTarget |-> 0,
     dTermBuf |-> <<0, 0, 0, 0, 0>>,
     errorGyroIf |-> Fin(0), errorGyroIfLimit |-> Fin(0),
     axisLockAccum |-> 0,
     angleFilterState |-> 0, ptermLpfState |-> 0, deltaLpfState |-> 0]

MAG_HOLD_DISABLED == "MAG_HOLD_DISABLED"
MAG_HOLD_UPDATE_HEADING == "MAG_HOLD_UPDATE_HEADING"
MAG_HOLD_ENABLED == "MAG_HOLD_ENABLED"

NAV_HEADING_CONTROL_NONE == "NAV_HEADING_CONTROL_NONE"
NAV_HEADING_CONTROL_AUTO == "NAV_HEADING_CONTROL_AUTO"
NAV_HEADING_CONTROL_MANUAL == "NAV_HEADING_CONTROL_MANUAL"

DECIDEGREES_TO_DEGREES(angle) == Quot(angle, 10)

\* sign-preserving x * b / c for b, c > 0
SMulDiv(x, b, c) == IF x >= 0 THEN MulDiv(x, b, c) ELSE -MulDiv(-x, b, c)

\* a float times dT (microseconds, as seconds)
TimesDT(x, dT) == SMulDiv(x, dT, 1000000)

\* the program state of pid.c as one value; env holds the sensors, sticks and flags of the call
PidMachine(env) ==
    [env |-> env,
     pidProfile |-> cfg.pidProfile,
     controlRateConfig |-> cfg.controlRateConfig,
     rxConfig |-> cfg.rxConfig,
     rcCommand |-> rcCommand,
     pidState |-> pidState,
     axisPID |-> axisPID,
     tpaFactor |-> tpaFactor,
     magHoldRateFilter |-> magHoldRateFilter,
     magHoldTargetHeading |-> magHoldTargetHeading]

\* Reset R/P/Y integrator
pidResetErrorAccumulatorsKeepingIntegral(pm) ==
    [pm EXCEPT !.pidState =
        [axis \in Axes |->
            [pm.pidState[axis] EXCEPT !.errorGyroIfLimit = Fin(0),
                                      !.axisLockAccum = IF axis = "YAW" THEN 0 ELSE @]]]

pidResetErrorAccumulators(pm) ==
    [pm EXCEPT !.pidState =
        [axis \in Axes |->
            [pm.pidState[axis] EXCEPT !.errorGyroIf = Fin(0),
                                      !.errorGyroIfLimit = Fin(0),
                                      !.axisLockAccum = IF axis = "YAW" THEN 0 ELSE @]]]

\* Map stick position from 200dps to 1200dps
pidRcCommandToRate(stick, rate) == (rate + 20) * stick * 2

\* Thrust PID Attenuation factor
TpaFactorUncapped(dynThrPID, throttle, tpa_breakpoint) ==
    IF dynThrPID = 0 \/ throttle < tpa_breakpoint THEN 100
    ELSE 100 - Quot(dynThrPID * (throttle - tpa_breakpoint), 2000 - tpa_breakpoint)

TpaFactor(dynThrPID, throttle, tpa_breakpoint) ==
    IF dynThrPID = 0 \/ throttle < tpa_breakpoint THEN 100
    ELSE IF throttle < 2000
         THEN 100 - Quot(dynThrPID * (throttle - tpa_breakpoint), 2000 - tpa_breakpoint)
         ELSE 100 - dynThrPID

\* kT = 2 / (kP / kI + kD / kP) in float arithmetic: 0 / 0 is NaN, x / 0 is infinite
BackCalculationGain(kP, kI, kD) ==
    IF kP = 0
    THEN IF kD = 0 THEN NaN ELSE Fin(0)
    ELSE Fin(2000000 \div ((kP * 10000) \div kI + kD \div kP))

updatePIDCoefficients(pm) ==
    LET throttle == pm.env.rcData.THROTTLE
        tpa == TpaFactor(pm.controlRateConfig.dynThrPID, throttle,
                         pm.controlRateConfig.tpa_breakpoint)
        relThrottle == constrainf(Quot((throttle - pm.rxConfig.mincheck) * 100,
                                       pm.rxConfig.maxcheck - pm.rxConfig.mincheck), 0, 100)
        kdAttenuationFactor == IF relThrottle < 25
                               THEN constrainf(relThrottle * 4 + 50, 0, 100)
                               ELSE 100
        Coefficients(axis) ==
            LET P8 == pm.pidProfile.P8[axis]
                I8 == pm.pidProfile.I8[axis]
                D8 == pm.pidProfile.D8[axis]
                kP == IF axis # "YAW" THEN FMul(Quot(P8 * 100, 40), tpa) ELSE Quot(P8 * 100, 40)
                kI == I8 * 10
                kD == IF axis # "YAW" THEN (D8 * 250 * tpa * kdAttenuationFactor) \div 10000
                                      ELSE D8 * 250
            IN  [pm.pidState[axis] EXCEPT
                    !.kP = kP, !.kI = kI, !.kD = kD,
                    !.kT = IF P8 # 0 /\ I8 # 0 THEN BackCalculationGain(kP, kI, kD) ELSE Fin(0)]
    IN  [pm EXCEPT !.tpaFactor = tpa,
                   !.pidState = [axis \in Axes |-> Coefficients(axis)]]

pidApplyHeadingLockUnbounded(pm) ==
    LET ps == pm.pidState["YAW"]
        accum == ps.axisLockAccum + TimesDT(ps.rateTarget - ps.gyroRate, pm.env.dT)
    IN  IF ABS(ps.rateTarget) > F(2) \/ ~pm.env.armed
        THEN [pm EXCEPT !.pidState["YAW"].axisLockAccum = 0]
        ELSE [pm EXCEPT !.pidState["YAW"].axisLockAccum = accum,
                        !.pidState["YAW"].rateTarget = Quot(accum * pm.pidProfile.P8["PIDMAG"], 80)]

pidApplyHeadingLock(pm) ==
    LET ps == pm.pidState["YAW"]
        accum == constrainf(ps.axisLockAccum + TimesDT(ps.rateTarget - ps.gyroRate, pm.env.dT),
                            F(-45), F(45))
    IN  IF ABS(ps.rateTarget) > F(2) \/ ~pm.env.armed
        THEN [pm EXCEPT !.pidState["YAW"].axisLockAccum = 0]
        ELSE [pm EXCEPT !.pidState["YAW"].axisLockAccum = accum,
                        !.pidState["YAW"].rateTarget = Quot(accum * pm.pidProfile.P8["PIDMAG"], 80)]

\* getRcStickDeflection: the stick's distance from midrc, at most 500
getRcStickDeflection(pm, axis) ==
    LET d == ABS(pm.env.rcData[axis] - pm.rxConfig.midrc)
    IN  IF d < 500 THEN d ELSE 500

calcHorizonLevelStrength(pm) ==
    LET stickPosAil == getRcStickDeflection(pm, "ROLL")
        stickPosEle == getRcStickDeflection(pm, "PITCH")
        mostDeflectedPos == IF stickPosAil > stickPosEle THEN stickPosAil ELSE stickPosEle
        horizonLevelStrength == Quot((500 - mostDeflectedPos) * 100, 500)
        D8 == pm.pidProfile.D8["PIDLEVEL"]
    IN  IF D8 = 0 THEN 0
        ELSE constrainf(Quot((horizonLevelStrength - 100) * 100, D8) + 100, 0, 100)

pidLevel(pm, axis, horizonLevelStrength) ==
    LET ps == pm.pidState[axis]
        angleTarget == pidRcCommandToAngle(pm.rcCommand[axis])
        maxIncl == pm.pidProfile.max_angle_inclination[axis]
        \* degrees, as a float
        angleError == (constrain(angleTarget, -maxIncl, maxIncl) - pm.env.attitude[axis]) * 10
        levelRate == Quot(angleError * pm.pidProfile.P8["PIDLEVEL"], 40)
        rateTarget == IF "HORIZON_MODE" \in pm.env.flightModes
                      THEN ps.rateTarget + FMul(levelRate, horizonLevelStrength)
                      ELSE levelRate
        cutoff == pm.pidProfile.I8["PIDLEVEL"]
        filtered == IF cutoff # 0
                    THEN filterApplyPt1(rateTarget, ps.angleFilterState, cutoff, pm.env.dT)
                    ELSE rateTarget
    IN  [pm EXCEPT !.pidState[axis].rateTarget = filtered,
                   !.pidState[axis].angleFilterState = IF cutoff # 0 THEN filtered ELSE @]

\* axisPID[axis] = newOutputLimited: the conversion of a float to int16_t,
\* which is undefined for NaN
AxisOutput(pm, newOutputLimited) ==
    IF IsNaN(newOutputLimited) THEN pm.env.nanAsInt16 ELSE ToInt(Val(newOutputLimited))

\* constrainf on a float that may be NaN: every comparison with NaN is false
constrainfNaN(amt, low, high) ==
    IF IsNaN(amt) THEN NaN
    ELSE IF ~IsNaN(low) /\ Val(amt) < Val(low) THEN low
    ELSE IF ~IsNaN(high) /\ Val(amt) > Val(high) THEN high
    ELSE amt

OutputLimited(newOutput) ==
    constrainfNaN(newOutput, Fin(-F(PID_MAX_OUTPUT)), Fin(F(PID_MAX_OUTPUT)))

\* Don't grow I-term if motors are at their limit
AntiWindupActiveOnFlagOnly(pm) == "ANTI_WINDUP" \in pm.env.stateFlags

AntiWindupActive(pm) == "ANTI_WINDUP" \in pm.env.stateFlags \/ pm.env.motorLimitReached

\* TODO: Get feedback from mixer on available correction range for each axis
PidAttenuationFactorAtMotorLimit(pm) ==
    IF "PID_ATTENUATE" \in pm.env.stateFlags \/ pm.env.motorLimitReached THEN 33 ELSE 100

PidAttenuationFactor(pm) == IF "PID_ATTENUATE" \in pm.env.stateFlags THEN 33 ELSE 100

pidApplyRateController(pm, axis) ==
    LET ps == pm.pidState[axis]
        prof == pm.pidProfile
        dT == pm.env.dT
        rateError == ps.rateTarget - ps.gyroRate
        pTerm == FMul(rateError, ps.kP)
        \* Constrain YAW by yaw_p_limit value if not servo driven
        pLimited == IF axis = "YAW" /\ pm.env.motorCount >= 4 /\ prof.yaw_p_limit # 0
                    THEN F(constrain(ToInt(pTerm), -prof.yaw_p_limit, prof.yaw_p_limit))
                    ELSE pTerm
        yawLpf == axis = "YAW" /\ prof.yaw_lpf_hz # 0
        newPTerm == IF yawLpf
                    THEN filterApplyPt1(pLimited, ps.ptermLpfState, prof.yaw_lpf_hz, dT)
                    ELSE pLimited
        \* 5-point noise-robust differentiator on the gyro rate
        dTermBuf == <<ps.gyroRate>> \o SubSeq(ps.dTermBuf, 1, 4)
        fir == 5 * dTermBuf[1] + 2 * dTermBuf[2] - 8 * dTermBuf[3]
                 - 2 * dTermBuf[4] + 3 * dTermBuf[5]
        dRaw == -SMulDiv(fir, ps.kD, 8 * dT)
        dLpf == prof.D8[axis] # 0 /\ prof.dterm_lpf_hz # 0
        newDTerm == IF prof.D8[axis] = 0 THEN 0
                    ELSE IF dLpf THEN filterApplyPt1(dRaw, ps.deltaLpfState, prof.dterm_lpf_hz, dT)
                    ELSE dRaw
        pidAttenuationFactor == PidAttenuationFactor(pm)
        pd == FMul(newPTerm + newDTerm, pidAttenuationFactor)
        newOutput == IF IsNaN(ps.errorGyroIf) THEN NaN ELSE Fin(pd + Val(ps.errorGyroIf))
        newOutputLimited == OutputLimited(newOutput)
        \* Integrate only if we can do backtracking
        integrated ==
            IF IsNaN(ps.errorGyroIf) \/ IsNaN(ps.kT) THEN NaN
            ELSE Fin(Val(ps.errorGyroIf) + TimesDT(FMul(rateError, ps.kI), dT)
                       + TimesDT(FMul(Val(newOutputLimited) - Val(newOutput), Val(ps.kT)), dT))
        \* Don't grow I-term if motors are at their limit
        limiting == AntiWindupActive(pm)
        negLimit == IF IsNaN(ps.errorGyroIfLimit) THEN NaN ELSE Fin(-Val(ps.errorGyroIfLimit))
        errorGyroIf == IF limiting
                       THEN constrainfNaN(integrated, negLimit, ps.errorGyroIfLimit)
                       ELSE integrated
        errorGyroIfLimit == IF limiting THEN ps.errorGyroIfLimit
                            ELSE IF IsNaN(errorGyroIf) THEN NaN ELSE Fin(ABS(Val(errorGyroIf)))
    IN  [pm EXCEPT !.pidState[axis] =
                       [ps EXCEPT !.ptermLpfState = IF yawLpf THEN newPTerm ELSE @,
                                  !.dTermBuf = IF prof.D8[axis] = 0 THEN @ ELSE dTermBuf,
                                  !.deltaLpfState = IF dLpf THEN newDTerm ELSE @,
                                  !.errorGyroIf = errorGyroIf,
                                  !.errorGyroIfLimit = errorGyroIfLimit],
                   !.axisPID[axis] = AxisOutput(pm, newOutputLimited)]

\* the build without NAV: the sticks and MAG_MODE alone decide
getMagHoldStateWithoutNav(pm) ==
    IF ~pm.env.sensorsMag \/ "SMALL_ANGLE" \notin pm.env.stateFlags THEN MAG_HOLD_DISABLED
    ELSE IF ABS(pm.rcCommand.YAW) < 15 /\ "MAG_MODE" \in pm.env.flightModes
         THEN MAG_HOLD_ENABLED
         ELSE MAG_HOLD_UPDATE_HEADING

getMagHoldState(pm) ==
    IF ~pm.env.sensorsMag \/ "SMALL_ANGLE" \notin pm.env.stateFlags THEN MAG_HOLD_DISABLED
    ELSE IF pm.env.navHeadingState # NAV_HEADING_CONTROL_NONE
         THEN IF pm.env.navHeadingState = NAV_HEADING_CONTROL_AUTO
              THEN MAG_HOLD_ENABLED
              ELSE MAG_HOLD_UPDATE_HEADING
         ELSE IF ABS(pm.rcCommand.YAW) < 15 /\ "MAG_MODE" \in pm.env.flightModes
              THEN MAG_HOLD_ENABLED
              ELSE MAG_HOLD_UPDATE_HEADING

\* Convert absolute error into relative to current heading
MagHoldError(pm) ==
    LET error == DECIDEGREES_TO_DEGREES(pm.env.attitude.YAW) - pm.magHoldTargetHeading
        e1 == IF error <= -180 THEN error + 360 ELSE error
    IN  IF e1 >= 180 THEN e1 - 360 ELSE e1

\* MAG_HOLD P Controller: returns the desired rotation rate, which is also the filter state
pidMagHold(pm) ==
    LET limit == F(pm.pidProfile.mag_hold_rate_limit)
        magHoldRate == constrainf(F(Quot(MagHoldError(pm) * pm.pidProfile.P8["PIDMAG"], 30)),
                                  -limit, limit)
    IN  filterApplyPt1(magHoldRate, pm.magHoldRateFilter, 2, pm.env.dT)

pidController(pm0) ==
    LET magHoldState == getMagHoldState(pm0)
        pm1 == IF magHoldState = MAG_HOLD_UPDATE_HEADING
               THEN updateMagHoldHeading(pm0, DECIDEGREES_TO_DEGREES(pm0.env.attitude.YAW))
               ELSE pm0
        useMagHold == magHoldState = MAG_HOLD_ENABLED
        magHoldRate == pidMagHold(pm1)
        RateTarget(axis) ==
            IF axis = "YAW" /\ useMagHold THEN magHoldRate
            ELSE pidRcCommandToRate(pm1.rcCommand[axis], pm1.controlRateConfig.rates[axis])
        \* Step 1 and 2: gyro rates and rate targets, within what the gyro can measure
        pm2 == [pm1 EXCEPT
                  !.magHoldRateFilter = IF useMagHold THEN magHoldRate ELSE @,
                  !.pidState = [axis \in Axes |->
                       [pm1.pidState[axis] EXCEPT
                           !.gyroRate = pm1.env.gyroRate[axis],
                           !.rateTarget = constrainf(RateTarget(axis),
                                                     -F(GYRO_SATURATION_LIMIT),
                                                     F(GYRO_SATURATION_LIMIT))]]]
        \* Step 3: ANGLE_MODE, HORIZON_MODE and HEADING_LOCK
        levelling == pm2.env.flightModes \cap {"ANGLE_MODE", "HORIZON_MODE"} # {}
        horizonLevelStrength == calcHorizonLevelStrength(pm2)
        pm3 == IF levelling
               THEN pidLevel(pidLevel(pm2, "ROLL", horizonLevelStrength),
                             "PITCH", horizonLevelStrength)
               ELSE pm2
        pm4 == IF "HEADING_LOCK" \in pm3.env.flightModes /\ ~useMagHold
               THEN pidApplyHeadingLock(pm3)
               ELSE pm3
        \* Step 4: gyro-driven control
    IN  pidApplyRateController(
            pidApplyRateController(
                pidApplyRateController(pm4, "ROLL"), "PITCH"), "YAW")

(***************************************************************************)
(* Initial state: statics as the C start-up code leaves them               *)
(***************************************************************************)
NavPid(kP, kI, kT) ==
    [param |-> [kP |-> kP, kI |-> kI, kT |-> kT], integrator |-> 0, last_input |-> 0]

Vector(x, y, z) == [X |-> x, Y |-> y, Z |-> z]

InitialPosControl ==
    [flags |-> [isAdjustingPosition |-> FALSE, isAdjustingAltitude |-> FALSE,
                isTerrainFollowEnabled |-> FALSE,
                hasValidPositionSensor |-> FALSE, hasValidAltitudeSensor |-> FALSE,
                hasValidSurfaceSensor |-> FALSE,
                horizontalPositionDataNew |-> FALSE, verticalPositionDataNew |-> FALSE,
                horizontalPositionDataConsumed |-> FALSE, verticalPositionDataConsumed |-> FALSE],
     actualState |-> [pos |-> Vector(0, 0, 0), vel |-> Vector(0, 0, 0), velXY |-> 0,
                      yaw |-> 0, sinYaw |-> 0, cosYaw |-> F(1),
                      surface |-> F(-1), surfaceMin |-> F(-1)],
     desiredState |-> [pos |-> Vector(0, 0, 0), vel |-> Vector(0, 0, 0),
                       surface |-> F(-1), yaw |-> 0],
     pids |-> [pos |-> Vector(NavPid(65, 0, 0), NavPid(65, 0, 0), NavPid(100, 0, 0)),
               vel |-> Vector(NavPid(180, 15, 17), NavPid(180, 15, 17), NavPid(150, 250, 333)),
               surface |-> NavPid(100, 0, 0)],
     rcAdjustment |-> [ROLL |-> 0, PITCH |-> 0, YAW |-> 0, THROTTLE |-> 0],
     posResponseExpo |-> 10,
     posDecelerationTime |-> 120]

DefaultConfig ==
    [minthrottle |-> 1150, maxthrottle |-> 1850,
     mc_hover_throttle |-> 1500, mc_min_fly_throttle |-> 1200,
     mc_max_bank_angle |-> 30, emerg_descent_rate |-> F(500),
     failsafe_throttle |-> 1000, alt_hold_deadband |-> 50,
     max_manual_climb_rate |-> 200,
     use_thr_mid_for_althold |-> FALSE, user_control_mode |-> NAV_GPS_ATTI,
     pidProfile |->
        [P8 |-> [ROLL |-> 40, PITCH |-> 40, YAW |-> 85, PIDLEVEL |-> 20, PIDMAG |-> 60],
         I8 |-> [ROLL |-> 30, PITCH |-> 30, YAW |-> 45, PIDLEVEL |-> 15, PIDMAG |-> 0],
         D8 |-> [ROLL |-> 23, PITCH |-> 23, YAW |-> 0, PIDLEVEL |-> 75, PIDMAG |-> 0],
         dterm_lpf_hz |-> 40, yaw_p_limit |-> 300, yaw_lpf_hz |-> 30,
         max_angle_inclination |-> [ROLL |-> 300, PITCH |-> 300],
         mag_hold_rate_limit |-> 90],
     controlRateConfig |-> [rates |-> [ROLL |-> 20, PITCH |-> 20, YAW |-> 20],
                            dynThrPID |-> 0, tpa_breakpoint |-> 1500],
     rxConfig |-> [mincheck |-> 1100, maxcheck |-> 1900, midrc |-> 1500]]

NoCall == [op |-> "boot", flags |-> {}, time |-> 0, result |-> FALSE, log |-> <<>>,
           pre |-> [rcCommand |-> [ROLL |-> 0, PITCH |-> 0, YAW |-> 0, THROTTLE |-> 0]]]

InitProgram(configs, bootTimes) ==
    /\ uptime \in bootTimes
    /\ ncalls = 0
    /\ cfg \in configs
    /\ posControl = InitialPosControl
    /\ rcCommand = [ROLL |-> 0, PITCH |-> 0, YAW |-> 0, THROTTLE |-> 0]
    /\ rcCommandAdjustedThrottle = 0
    /\ altHoldThrottleRCZero = 1500
    /\ altholdThrottleFilterState = 0
    /\ prepareForTakeoffOnReset = FALSE
    /\ altitudeTimes = [previousTimeUpdate |-> 0, previousTimePositionUpdate |-> 0]
    /\ positionTimes = [previousTimeUpdate |-> 0, previousTimePositionUpdate |-> 0]
    /\ emergencyTimes = [previousTimeUpdate |-> 0, previousTimePositionUpdate |-> 0]
    /\ mcPosControllerAccFilterState = [X |-> 0, Y |-> 0]
    /\ lastAccelTarget = [X |-> 0, Y |-> 0]
    /\ magHoldTargetHeading = 0
    /\ landingTimer = uptime % ClockWrap
    /\ hasHadSomeVelocity = FALSE
    /\ lastViolation = uptime
    /\ magHoldRateFilter = 0
    /\ call = NoCall

InitWith(configs, bootTimes) ==
    /\ InitProgram(configs, bootTimes)
    /\ pidState = [axis \in Axes |-> InitialPidState]
    /\ axisPID = [axis \in Axes |-> 0]
    /\ tpaFactor = 0

(***************************************************************************)
(* What the collaborators publish before a call: the pilot's rcCommand,    *)
(* the estimator's state and freshness flags, the state machine's flags.   *)
(***************************************************************************)
BaseInput ==
    [rc |-> [ROLL |-> 0, PITCH |-> 0, YAW |-> 0, THROTTLE |-> 1500],
     actual |-> InitialPosControl.actualState,
     desiredYaw |-> 0,
     flags |-> [isAdjustingPosition |-> FALSE, isAdjustingAltitude |-> FALSE,
                isTerrainFollowEnabled |-> FALSE,
                hasValidPositionSensor |-> TRUE, hasValidAltitudeSensor |-> TRUE,
                hasValidSurfaceSensor |-> FALSE,
                horizontalPositionDataNew |-> TRUE, verticalPositionDataNew |-> TRUE],
     env |-> [failsafeConfigActive |-> FALSE, activeWaypointSpeed |-> F(300),
              throttleStatus |-> "THROTTLE_HIGH", rcLookupThrottleMid |-> 1500]]

\* the program state at the entry of a call, the inputs published and the
\* consumed flags cleared by the navigation loop
Ingest(in, navStateFlags) ==
    LET m == Machine(in.env @@ [navStateFlags |-> navStateFlags])
    IN  [m EXCEPT !.rcCommand = in.rc,
                  !.posControl.actualState = in.actual,
                  !.posControl.desiredState.yaw = in.desiredYaw,
                  !.posControl.flags =
                      in.flags @@ [horizontalPositionDataConsumed |-> FALSE,
                                   verticalPositionDataConsumed |-> FALSE]]

Commit(m) ==
    /\ posControl' = m.posControl
    /\ rcCommand' = m.rcCommand
    /\ rcCommandAdjustedThrottle' = m.rcCommandAdjustedThrottle
    /\ altHoldThrottleRCZero' = m.altHoldThrottleRCZero
    /\ altholdThrottleFilterState' = m.altholdThrottleFilterState
    /\ prepareForTakeoffOnReset' = m.prepareForTakeoffOnReset
    /\ altitudeTimes' = m.altitudeTimes
    /\ positionTimes' = m.positionTimes
    /\ emergencyTimes' = m.emergencyTimes
    /\ mcPosControllerAccFilterState' = m.mcPosControllerAccFilterState
    /\ lastAccelTarget' = m.lastAccelTarget
    /\ magHoldTargetHeading' = m.magHoldTargetHeading

CallRecord(op, navStateFlags, time, pre, post, result) ==
    [op |-> op, flags |-> navStateFlags, time |-> time, result |-> result,
     log |-> post.log, pre |-> pre]

\* an operation takes the program from state pre to state post
Perform(op, navStateFlags, time, pre, post) ==
    /\ Commit(post)
    /\ call' = CallRecord(op, navStateFlags, time, pre, post, FALSE)

RunNavigationController(pre, navStateFlags, currentTime) ==
    Perform("applyMulticopterNavigationController", navStateFlags, currentTime, pre,
            applyMulticopterNavigationController(pre, navStateFlags, currentTime))

(***************************************************************************)
(* Operations                                                              *)
(***************************************************************************)
\* one pass of the navigation loop, d clock ticks after the previous operation
NavigationTick(d, navStateFlags, in) ==
    /\ ncalls < MaxCalls
    /\ RunNavigationController(Ingest(in, navStateFlags), navStateFlags,
                               (uptime + d) % ClockWrap)
    /\ uptime' = uptime + d
    /\ ncalls' = ncalls + 1
    /\ UNCHANGED <<cfg, landVars, pidVars>>

\* the state machine sets the altitude controller up (arming, mode entry)
SetupAltitude(in) ==
    /\ ncalls < MaxCalls
    /\ LET pre == Ingest(in, {})
           post == setupMulticopterAltitudeController(pre)
       IN  /\ Commit(post)
           /\ call' = CallRecord("setupMulticopterAltitudeController", {}, micros, pre, post, FALSE)
    /\ ncalls' = ncalls + 1
    /\ UNCHANGED <<uptime, cfg, landVars, pidVars>>

\* the state machine passes the pilot's throttle stick to the altitude controller
AdjustAltitude(in) ==
    /\ ncalls < MaxCalls
    /\ LET pre == Ingest(in, {})
           post == adjustMulticopterAltitudeFromRCInput(pre)
       IN  /\ Commit(post)
           /\ call' = CallRecord("adjustMulticopterAltitudeFromRCInput", {}, micros, pre, post,
                                 IsAltitudeAdjusted(pre))
    /\ ncalls' = ncalls + 1
    /\ UNCHANGED <<uptime, cfg, landVars, pidVars>>

\* the state machine resets the altitude controller
ResetAltitude ==
    /\ ncalls < MaxCalls
    /\ LET pre == Machine([navStateFlags |-> {}])
           post == resetMulticopterAltitudeController(pre)
       IN  /\ Commit(post)
           /\ call' = CallRecord("resetMulticopterAltitudeController", {}, micros, pre, post, FALSE)
    /\ ncalls' = ncalls + 1
    /\ UNCHANGED <<uptime, cfg, landVars, pidVars>>

\* the state machine resets the position controller
ResetPosition ==
    /\ ncalls < MaxCalls
    /\ LET pre == Machine([navStateFlags |-> {}])
           post == resetMulticopterPositionController(pre)
       IN  /\ Commit(post)
           /\ call' = CallRecord("resetMulticopterPositionController", {}, micros, pre, post, FALSE)
    /\ ncalls' = ncalls + 1
    /\ UNCHANGED <<uptime, cfg, landVars, pidVars>>

(***************************************************************************)
(* Altitude hold and emergency landing                                     *)
(***************************************************************************)
TickSteps == {1600, 3125, 8000}

VerticalInputs ==
    {[BaseInput EXCEPT !.flags.verticalPositionDataNew = new, !.actual.vel.Z = v]
        : new \in BOOLEAN, v \in {0, F(-40)}}
    \cup {[BaseInput EXCEPT !.rc.THROTTLE = 1000, !.rc.ROLL = 100, !.rc.YAW = -50]}
    \cup {[BaseInput EXCEPT !.flags.hasValidAltitudeSensor = FALSE, !.rc.PITCH = 70,
                            !.env.failsafeConfigActive = fs] : fs \in BOOLEAN}

TakeoffInputs ==
    {[BaseInput EXCEPT !.env.throttleStatus = ts, !.rc.THROTTLE = thr]
        : ts \in {"THROTTLE_LOW", "THROTTLE_HIGH"}, thr \in {1150, 1600}}

AltitudeTick ==
    \E d \in TickSteps, f \in {{NAV_CTL_ALT}, {NAV_CTL_EMERG}}, in \in VerticalInputs :
        NavigationTick(d, f, in)

AltitudeSetup == \E in \in TakeoffInputs : SetupAltitude(in)

InitAlt == InitWith({DefaultConfig}, {0})

NextAlt == AltitudeTick \/ AltitudeSetup \/ ResetAltitude

SpecAlt == InitAlt /\ [][NextAlt]_vars

(***************************************************************************)
(* Entering altitude hold under several throttle configurations            *)
(***************************************************************************)
\* the default throttle range and deadband, a high idle with the widest
\* deadband, and a range too narrow for the deadband
ThrottleConfigs ==
    {[c EXCEPT !.use_thr_mid_for_althold = mid]
        : c \in {DefaultConfig,
                 [DefaultConfig EXCEPT !.minthrottle = 1300, !.alt_hold_deadband = 250],
                 [DefaultConfig EXCEPT !.maxthrottle = 1600, !.alt_hold_deadband = 250]},
          mid \in BOOLEAN}

SetupInputs ==
    {[BaseInput EXCEPT !.env.throttleStatus = ts, !.rc.THROTTLE = thr,
                       !.env.rcLookupThrottleMid = mid]
        : ts \in {"THROTTLE_LOW", "THROTTLE_HIGH"}, thr \in {1000, 1500, 1800, 2000},
          mid \in {1250, 1500}}

SetupTick == \E in \in SetupInputs : SetupAltitude(in)

InitSetup == InitWith(ThrottleConfigs, {0})

NextSetup == SetupTick \/ ResetAltitude

SpecSetup == InitSetup /\ [][NextSetup]_vars

(***************************************************************************)
(* Position hold                                                           *)
(***************************************************************************)
PositionTickSteps == {1600, 3100, 8000}

\* the aircraft 4 m short of / beside the hold position, the pilot on or off the sticks
HorizontalInputs ==
    {[BaseInput EXCEPT !.actual.pos.X = F(-400)],
     [BaseInput EXCEPT !.actual.pos.Y = F(400), !.actual.vel.Y = F(50)],
     [BaseInput EXCEPT !.actual.pos.X = F(-400), !.flags.isAdjustingPosition = TRUE,
                       !.rc.ROLL = 120, !.rc.PITCH = -80],
     [BaseInput EXCEPT !.flags.horizontalPositionDataNew = FALSE,
                       !.flags.isAdjustingPosition = TRUE, !.rc.ROLL = -60, !.rc.PITCH = 40],
     [BaseInput EXCEPT !.flags.hasValidPositionSensor = FALSE, !.rc.PITCH = 200],
     [BaseInput EXCEPT !.flags.hasValidPositionSensor = FALSE,
                       !.flags.horizontalPositionDataNew = FALSE, !.rc.ROLL = -150]}

PositionConfigs ==
    {[DefaultConfig EXCEPT !.mc_max_bank_angle = 15, !.user_control_mode = mode]
        : mode \in {NAV_GPS_ATTI, NAV_GPS_CRUISE}}

PositionTick ==
    \E d \in PositionTickSteps, in \in HorizontalInputs : NavigationTick(d, {NAV_CTL_POS}, in)

InitPos == InitWith(PositionConfigs, {0})

NextPos == PositionTick \/ ResetPosition

SpecPos == InitPos /\ [][NextPos]_vars

(***************************************************************************)
(* The dispatcher under every combination of the control flags             *)
(***************************************************************************)
NavTickSteps == {1600, 3125}

NavInputs ==
    LET flying == [BaseInput EXCEPT !.actual.pos.X = F(-400), !.actual.vel.Z = F(-40),
                                    !.desiredYaw = 9000,
                                    !.rc = [ROLL |-> 100, PITCH |-> -50, YAW |-> 30, THROTTLE |-> 1400]]
    IN  {flying,
         [flying EXCEPT !.flags.isAdjustingPosition = TRUE],
         [flying EXCEPT !.flags.hasValidAltitudeSensor = FALSE,
                        !.flags.hasValidPositionSensor = FALSE,
                        !.env.failsafeConfigActive = TRUE]}

NavTick ==
    /\ ncalls < MaxNavCalls
    /\ \E d \in NavTickSteps, in \in NavInputs,
          f \in SUBSET {NAV_CTL_ALT, NAV_CTL_POS, NAV_CTL_YAW, NAV_CTL_EMERG} :
           NavigationTick(d, f, in)

InitNav == InitWith({DefaultConfig}, {0})

NextNav == NavTick

SpecNav == InitNav /\ [][NextNav]_vars

(***************************************************************************)
(* Landing: the state machine polls the land detector                      *)
(***************************************************************************)
\* the landing conditions other than the descent latch, on the estimator's state
LandingConditionsHold(actual, flags, throttle) ==
    /\ ABS(actual.vel.Z) <= F(25)
    /\ actual.velXY <= F(100)
    /\ throttle < cfg.mc_min_fly_throttle
    /\ (flags.hasValidSurfaceSensor /\ actual.surface >= 0)
           => actual.surface <= actual.surfaceMin + F(5)

\* a poll of isMulticopterLandingDetected, d clock ticks after the previous operation
LandingPoll(d, in) ==
    /\ ncalls < MaxCalls
    /\ LET currentTime == (uptime + d) % ClockWrap
           pre == Ingest(in, {})
           r == isMulticopterLandingDetected(pre, currentTime, landingTimer, hasHadSomeVelocity)
       IN  /\ Commit(pre)
           /\ landingTimer' = r.landingTimer
           /\ hasHadSomeVelocity' = r.hasHadSomeVelocity
           /\ lastViolation' =
                  IF LandingConditionsHold(in.actual, in.flags, rcCommandAdjustedThrottle)
                  THEN lastViolation ELSE uptime + d
           /\ call' = CallRecord("isMulticopterLandingDetected", {}, currentTime, pre, pre, r.result)
    /\ uptime' = uptime + d
    /\ ncalls' = ncalls + 1
    /\ UNCHANGED <<cfg, pidVars>>

\* the state machine enters the landing state: resetLandingDetector
ResetLandingDetector ==
    /\ ncalls < MaxCalls
    /\ landingTimer' = micros
    /\ hasHadSomeVelocity' = FALSE
    /\ lastViolation' = uptime
    /\ call' = [NoCall EXCEPT !.op = "resetLandingDetector", !.time = micros]
    /\ ncalls' = ncalls + 1
    /\ UNCHANGED <<uptime, cfg, posControl, rcCommand, rcCommandAdjustedThrottle,
                   altHoldThrottleRCZero, altholdThrottleFilterState, prepareForTakeoffOnReset,
                   altitudeTimes, positionTimes, emergencyTimes, mcPosControllerAccFilterState,
                   lastAccelTarget, magHoldTargetHeading, pidVars>>

\* one and two seconds, and one clock tick
PollSteps == {1, 15625, 31250}

LandingInputs ==
    LET calm == [BaseInput EXCEPT !.rc.THROTTLE = 1000]
    IN  {calm,
         [calm EXCEPT !.actual.vel.Z = F(-30)],
         [calm EXCEPT !.actual.velXY = F(150)],
         [calm EXCEPT !.flags.hasValidSurfaceSensor = TRUE,
                      !.actual.surface = F(3), !.actual.surfaceMin = F(2)],
         [calm EXCEPT !.flags.hasValidSurfaceSensor = TRUE,
                      !.actual.surface = F(50), !.actual.surfaceMin = F(2)]}

LandingDetectorPoll == \E d \in PollSteps, in \in LandingInputs : LandingPoll(d, in)

\* an altitude hold tick, which leaves the hover throttle in rcCommandAdjustedThrottle
LandingAltitudeTick == NavigationTick(1600, {NAV_CTL_ALT}, BaseInput)

InitLand == InitWith({DefaultConfig}, {0, ClockWrap - 20000})

NextLand == LandingDetectorPoll \/ ResetLandingDetector \/ LandingAltitudeTick

SpecLand == InitLand /\ [][NextLand]_vars

(***************************************************************************)
(* The main loop: gain update, rate controller, integrator reset           *)
(***************************************************************************)
CommitPid(pm) ==
    /\ pidState' = pm.pidState
    /\ axisPID' = pm.axisPID
    /\ tpaFactor' = pm.tpaFactor
    /\ magHoldRateFilter' = pm.magHoldRateFilter
    /\ magHoldTargetHeading' = pm.magHoldTargetHeading
    /\ rcCommand' = pm.rcCommand

navVars == <<posControl, rcCommandAdjustedThrottle, altHoldThrottleRCZero,
             altholdThrottleFilterState, prepareForTakeoffOnReset, altitudeTimes,
             positionTimes, emergencyTimes, mcPosControllerAccFilterState, lastAccelTarget>>

PidCall(op, pre, post) ==
    [op |-> op, flags |-> {}, time |-> micros, result |-> FALSE, log |-> <<>>, pre |-> pre]

\* updatePIDCoefficients with the receiver's throttle channel at the given value
PidCoefficients(in) ==
    /\ ncalls < MaxCalls
    /\ LET pre == PidMachine(in.env)
           post == updatePIDCoefficients(pre)
       IN  CommitPid(post) /\ call' = PidCall("updatePIDCoefficients", pre, post)
    /\ ncalls' = ncalls + 1
    /\ UNCHANGED <<uptime, cfg, navVars, landVars>>

\* pidController on the sticks, gyro rates, attitude and flags of one loop;
\* nanAsInt16 is what the build's float to int16_t conversion makes of NaN
PidTick(in, nanAsInt16) ==
    /\ ncalls < MaxCalls
    /\ LET pre == [PidMachine(in.env) EXCEPT !.rcCommand = in.rc]
           post == pidController([pre EXCEPT !.env = in.env @@ [nanAsInt16 |-> nanAsInt16]])
       IN  CommitPid(post) /\ call' = PidCall("pidController", pre, post)
    /\ uptime' = uptime + US2TICKS(in.env.dT)
    /\ ncalls' = ncalls + 1
    /\ UNCHANGED <<cfg, navVars, landVars>>

PidReset ==
    /\ ncalls < MaxCalls
    /\ LET pre == PidMachine([rcData |-> [THROTTLE |-> 1000]])
           post == pidResetErrorAccumulators(pre)
       IN  CommitPid(post) /\ call' = PidCall("pidResetErrorAccumulators", pre, post)
    /\ ncalls' = ncalls + 1
    /\ UNCHANGED <<uptime, cfg, navVars, landVars>>

BasePidInput ==
    [rc |-> [ROLL |-> 0, PITCH |-> 0, YAW |-> 0, THROTTLE |-> 1500],
     env |-> [rcData |-> [ROLL |-> 1500, PITCH |-> 1500, YAW |-> 1500, THROTTLE |-> 1500],
              gyroRate |-> [ROLL |-> 0, PITCH |-> 0, YAW |-> 0],
              attitude |-> [ROLL |-> 0, PITCH |-> 0, YAW |-> 0],
              flightModes |-> {}, stateFlags |-> {"SMALL_ANGLE"},
              armed |-> TRUE, motorLimitReached |-> FALSE, motorCount |-> 4,
              sensorsMag |-> TRUE, navHeadingState |-> NAV_HEADING_CONTROL_NONE,
              dT |-> 2000]]

\* full stick deflection against a rotating airframe, in the flight modes
PidInputs ==
    LET rolling == [BasePidInput EXCEPT
                       !.rc = [ROLL |-> 500, PITCH |-> -500, YAW |-> 500, THROTTLE |-> 2000],
                       !.env.rcData = [ROLL |-> 2000, PITCH |-> 1000, YAW |-> 2000, THROTTLE |-> 2000],
                       !.env.gyroRate = [ROLL |-> F(-400), PITCH |-> F(400), YAW |-> F(-200)]]
    IN  {BasePidInput,
         rolling,
         [rolling EXCEPT !.env.stateFlags = {"SMALL_ANGLE", "ANTI_WINDUP", "PID_ATTENUATE"}],
         [rolling EXCEPT !.env.flightModes = {"ANGLE_MODE"},
                         !.env.attitude = [ROLL |-> -450, PITCH |-> 200, YAW |-> 1790],
                         !.env.motorLimitReached = TRUE],
         [BasePidInput EXCEPT !.env.flightModes = {"HORIZON_MODE", "HEADING_LOCK"},
                              !.env.rcData.ROLL = 1700, !.rc.ROLL = 200,
                              !.env.gyroRate.YAW = F(30)],
         [BasePidInput EXCEPT !.env.flightModes = {"MAG_MODE"},
                              !.env.attitude.YAW = 3500]}

\* the conversion of NaN to int16_t is undefined: any int16_t value
NanAsInt16 == {-32768, -1, 0, 32767}

PidConfigs ==
    {[DefaultConfig EXCEPT !.controlRateConfig.dynThrPID = tpa] : tpa \in {0, 50, 100}}

PidGainUpdate ==
    \E thr \in {1000, 1750, 2000} :
        PidCoefficients([BasePidInput EXCEPT !.env.rcData.THROTTLE = thr])

PidControllerTick == \E in \in PidInputs, nan \in NanAsInt16 : PidTick(in, nan)

InitPid == InitWith(PidConfigs, {0})

NextPid == PidGainUpdate \/ PidControllerTick \/ PidReset

SpecPid == InitPid /\ [][NextPid]_vars

(***************************************************************************)
(* The rate controller in flight: gains set by the first pass of the main  *)
(* loop, motors at and off their limit                                     *)
(***************************************************************************)
\* pid.c after its first updatePIDCoefficients, at mid throttle
ConfiguredPid(config) ==
    updatePIDCoefficients(
        [env |-> BasePidInput.env,
         pidProfile |-> config.pidProfile,
         controlRateConfig |-> config.controlRateConfig,
         rxConfig |-> config.rxConfig,
         rcCommand |-> BasePidInput.rc,
         pidState |-> [axis \in Axes |-> InitialPidState],
         axisPID |-> [axis \in Axes |-> 0],
         tpaFactor |-> 0,
         magHoldRateFilter |-> 0,
         magHoldTargetHeading |-> 0])

InitConfigured(configs) ==
    /\ InitProgram(configs, {0})
    /\ pidState = ConfiguredPid(cfg).pidState
    /\ axisPID = [axis \in Axes |-> 0]
    /\ tpaFactor = ConfiguredPid(cfg).tpaFactor

\* the pilot pushes and pulls the roll and yaw sticks, the airframe turning
\* or not, the mixer reporting the motors at their limit or not
WindupInputs ==
    {[BasePidInput EXCEPT !.rc.ROLL = roll, !.rc.YAW = -roll,
                          !.env.gyroRate.ROLL = gyro,
                          !.env.motorLimitReached = limit]
        : roll \in {-500, 200, 500}, gyro \in {0, F(300)}, limit \in BOOLEAN}

WindupTick == \E in \in WindupInputs, nan \in NanAsInt16 : PidTick(in, nan)

WindupConfigs == {[DefaultConfig EXCEPT !.controlRateConfig.dynThrPID = tpa] : tpa \in {0, 100}}

InitWindup == InitConfigured(WindupConfigs)

NextWindup == WindupTick \/ PidGainUpdate \/ PidReset

SpecWindup == InitWindup /\ [][NextWindup]_vars

(***************************************************************************)
(* MAG_HOLD: the heading is captured and held                              *)
(***************************************************************************)
\* attitude.values.yaw in decidegrees: around north and around south
Headings == {0, 10, 1790, 1800, 1810, 3590}

MagHoldEnv(yaw) == [BasePidInput.env EXCEPT !.attitude.YAW = yaw]

MagHoldResult(pm, rate) == [error |-> MagHoldError(pm), rate |-> rate]

\* pidMagHold at heading yaw against the held target; the call records the
\* error the rate was computed from
MagHoldHold(pm) ==
    /\ ncalls < MaxCalls
    /\ magHoldRateFilter' = pidMagHold(pm)
    /\ call' = [PidCall("pidMagHold", pm, pm) EXCEPT !.result = MagHoldResult(pm, pidMagHold(pm))]
    /\ uptime' = uptime + US2TICKS(pm.env.dT)
    /\ ncalls' = ncalls + 1
    /\ UNCHANGED <<cfg, navVars, landVars, pidState, axisPID, tpaFactor,
                   magHoldTargetHeading, rcCommand>>

\* updateMagHoldHeading with the current heading, as pidController and the
\* navigation heading controller do
MagHoldCapture(pm) ==
    /\ ncalls < MaxCalls
    /\ magHoldTargetHeading' =
           updateMagHoldHeading(pm, DECIDEGREES_TO_DEGREES(pm.env.attitude.YAW)).magHoldTargetHeading
    /\ call' = PidCall("updateMagHoldHeading", pm, pm)
    /\ ncalls' = ncalls + 1
    /\ UNCHANGED <<uptime, cfg, navVars, landVars, pidVars, rcCommand>>

MagHoldTick == \E yaw \in Headings : MagHoldHold(PidMachine(MagHoldEnv(yaw)))

MagHoldHeadingUpdate == \E yaw \in Headings : MagHoldCapture(PidMachine(MagHoldEnv(yaw)))

InitMag == InitWith({DefaultConfig}, {0})

NextMag == MagHoldTick \/ MagHoldHeadingUpdate

SpecMag == InitMag /\ [][NextMag]_vars

(***************************************************************************)
(* Vocabulary of the properties: the last call and what it ran             *)
(***************************************************************************)
IsNavCall == call.op = "applyMulticopterNavigationController"

AltitudeStages == {"updateSurfaceTrackingAltitudeSetpoint",
                   "updateAltitudeVelocityController_MC",
                   "updateAltitudeThrottleController_MC"}

PositionStages == {"updatePositionVelocityController_MC",
                   "updatePositionAccelController_MC"}

HasRun(stages) == Ran(call.log, stages) # {}

\* time since the controller's previous call / previous fresh sample, at the last call
SinceUpdate(times) == U32Sub(call.time, times.previousTimeUpdate)
SincePositionUpdate(times) == U32Sub(call.time, times.previousTimePositionUpdate)

StaleLimit == US2TICKS(HZ2US(MIN_POSITION_UPDATE_RATE_HZ))

ThrottleInRange == cfg.minthrottle <= rcCommand.THROTTLE /\ rcCommand.THROTTLE <= cfg.maxthrottle

AltitudePidState == <<posControl.pids.vel.Z, posControl.pids.surface, altholdThrottleFilterState>>

(***************************************************************************)
(* C2: after every call of applyMulticopterNavigationController with       *)
(* NAV_CTL_ALT or NAV_CTL_EMERG set, minthrottle <= rcCommand[THROTTLE]    *)
(* <= maxthrottle, on every tick (stale ticks and emergency ticks without  *)
(* an altitude sensor included) and for any incoming rcCommand[THROTTLE].  *)
(***************************************************************************)
C2_ThrottleInRangeOnEveryTick ==
    (IsNavCall /\ call.flags \cap {NAV_CTL_ALT, NAV_CTL_EMERG} # {}) => ThrottleInRange

\* C2 as amended: the range holds on the ticks that pass the stale-tick guard
\* with (under NAV_CTL_EMERG) a valid altitude sensor; a tick that the stale
\* guard resets leaves rcCommand[THROTTLE] at its incoming value, and an
\* emergency tick without a valid altitude sensor commands failsafe_throttle
\* or minthrottle.
C2_ThrottleInRangeWhenPublished ==
    (IsNavCall /\ call.flags \cap {NAV_CTL_ALT, NAV_CTL_EMERG} # {}) =>
        LET emerg == NAV_CTL_EMERG \in call.flags
            stale == IF emerg THEN SinceUpdate(call.pre.emergencyTimes) > StaleLimit
                              ELSE SinceUpdate(call.pre.altitudeTimes) > StaleLimit
        IN  IF emerg /\ ~call.pre.posControl.flags.hasValidAltitudeSensor
            THEN rcCommand.THROTTLE = (IF call.pre.env.failsafeConfigActive
                                       THEN cfg.failsafe_throttle ELSE cfg.minthrottle)
            ELSE IF stale THEN rcCommand.THROTTLE = call.pre.rcCommand.THROTTLE
                          ELSE ThrottleInRange

\* a non-stale altitude tick that replaced an out-of-range pilot throttle
C2_Witness ==
    /\ IsNavCall /\ call.flags = {NAV_CTL_ALT}
    /\ SinceUpdate(call.pre.altitudeTimes) <= StaleLimit
    /\ call.pre.rcCommand.THROTTLE < cfg.minthrottle
    /\ posControl.rcAdjustment.THROTTLE # 0
    /\ ThrottleInRange

(***************************************************************************)
(* C6: a call of the altitude controller more than                         *)
(* HZ2US(MIN_POSITION_UPDATE_RATE_HZ) after its previous call resets the   *)
(* controller and runs no stage, even with verticalPositionDataNew set:    *)
(* afterwards desired.vel.Z = actual.vel.Z, rcAdjustment[THROTTLE] = 0 and *)
(* the vel[Z] and surface PID state is cleared.                            *)
(***************************************************************************)
IsStaleAltitudeCall ==
    /\ IsNavCall /\ NAV_CTL_ALT \in call.flags /\ NAV_CTL_EMERG \notin call.flags
    /\ SinceUpdate(call.pre.altitudeTimes) > StaleLimit

StaleAltitudeReset ==
    /\ ~HasRun(AltitudeStages)
    /\ posControl.desiredState.vel.Z = posControl.actualState.vel.Z
    /\ posControl.rcAdjustment.THROTTLE = 0
    /\ posControl.pids.vel.Z.last_input = 0
    /\ posControl.pids.surface.integrator = 0
    /\ posControl.pids.surface.last_input = 0
    /\ altholdThrottleFilterState = 0

C6_StaleCallClearsController ==
    IsStaleAltitudeCall => (StaleAltitudeReset /\ posControl.pids.vel.Z.integrator = 0)

\* C6 as amended: the vel[Z] integrator is cleared unless a take-off is
\* pending (prepareForTakeoffOnReset), in which case it is seeded with -500.
C6_StaleCallResetsController ==
    IsStaleAltitudeCall =>
        /\ StaleAltitudeReset
        /\ posControl.pids.vel.Z.integrator =
               (IF call.pre.prepareForTakeoffOnReset THEN F(-500) ELSE 0)

\* a stale call with a fresh sample that found a wound-up controller
C6_Witness ==
    /\ IsStaleAltitudeCall
    /\ call.pre.posControl.flags.verticalPositionDataNew
    /\ call.pre.posControl.pids.vel.Z.integrator # 0
    /\ call.pre.posControl.rcAdjustment.THROTTLE # 0
    /\ call.pre.posControl.desiredState.vel.Z # posControl.actualState.vel.Z

(***************************************************************************)
(* C9: on every emergency tick rcCommand[ROLL|PITCH|YAW] are zero; without *)
(* a valid altitude sensor rcCommand[THROTTLE] is the active failsafe      *)
(* configuration's failsafe_throttle (minthrottle when there is none) and  *)
(* the altitude PID state, desired.vel.Z and rcAdjustment[THROTTLE] are    *)
(* unchanged; with a valid altitude sensor the descent target              *)
(* -emerg_descent_rate (surface target reset) is what the altitude         *)
(* velocity and throttle stages are run on, whenever the tick has a usable *)
(* fresh sample.                                                           *)
(***************************************************************************)
IsEmergencyCall == IsNavCall /\ NAV_CTL_EMERG \in call.flags

C9_EmergencyLanding ==
    IsEmergencyCall =>
        /\ rcCommand.ROLL = 0 /\ rcCommand.PITCH = 0 /\ rcCommand.YAW = 0
        /\ IF ~call.pre.posControl.flags.hasValidAltitudeSensor
           THEN /\ rcCommand.THROTTLE = (IF call.pre.env.failsafeConfigActive
                                         THEN cfg.failsafe_throttle ELSE cfg.minthrottle)
                /\ AltitudePidState = <<call.pre.posControl.pids.vel.Z,
                                        call.pre.posControl.pids.surface,
                                        call.pre.altholdThrottleFilterState>>
                /\ posControl.desiredState.vel.Z = call.pre.posControl.desiredState.vel.Z
                /\ posControl.rcAdjustment.THROTTLE = call.pre.posControl.rcAdjustment.THROTTLE
           ELSE LET usable == /\ SinceUpdate(call.pre.emergencyTimes) <= StaleLimit
                              /\ call.pre.posControl.flags.verticalPositionDataNew
                              /\ SincePositionUpdate(call.pre.emergencyTimes) < StaleLimit
                    stages == [i \in 1..Len(call.log) |-> call.log[i].stage]
                IN  IF usable
                    THEN /\ stages = <<"applyMulticopterEmergencyLandingController",
                                       "updateAltitudeTargetFromClimbRate",
                                       "updateAltitudeVelocityController_MC",
                                       "updateAltitudeThrottleController_MC">>
                         /\ call.log[2].arg = <<-cfg.emerg_descent_rate,
                                                CLIMB_RATE_RESET_SURFACE_TARGET>>
                         /\ posControl.desiredState.surface = F(-1)
                    ELSE ~HasRun(AltitudeStages \cup {"updateAltitudeTargetFromClimbRate"})

\* a closed-loop emergency tick over the pilot's sticks
C9_Witness ==
    /\ IsEmergencyCall
    /\ HasRun({"updateAltitudeThrottleController_MC"})
    /\ call.pre.rcCommand.ROLL # 0
    /\ posControl.rcAdjustment.THROTTLE # 0

(***************************************************************************)
(* C3: in every state reachable by position ticks and resets,              *)
(* |rcAdjustment[ROLL]| and |rcAdjustment[PITCH]| are at most              *)
(* 10 * mc_max_bank_angle (decidegrees).                                   *)
(***************************************************************************)
MaxBankDeciDegrees == DEGREES_TO_DECIDEGREES(cfg.mc_max_bank_angle)

C3_BankAngleBounded ==
    /\ ABS(posControl.rcAdjustment.ROLL) <= MaxBankDeciDegrees
    /\ ABS(posControl.rcAdjustment.PITCH) <= MaxBankDeciDegrees

\* the acceleration stage asked for more tilt than allowed and was held at the limit
C3_Witness ==
    /\ IsNavCall /\ HasRun({"updatePositionAccelController_MC"})
    /\ LET pitch == atan2_approx(mcPosControllerAccFilterState.X, GRAVITY_CMSS)
       IN  RADIANS_TO_DECIDEGREES(pitch) > MaxBankDeciDegrees
    /\ posControl.rcAdjustment.PITCH = MaxBankDeciDegrees

(***************************************************************************)
(* C10: on a position tick in GPS_ATTI mode with isAdjustingPosition set,  *)
(* rcAdjustment[ROLL] and rcAdjustment[PITCH] are zero after the tick and  *)
(* rcCommand[ROLL] and rcCommand[PITCH] are left at the pilot's values.    *)
(***************************************************************************)
IsPilotOverrideCall ==
    /\ IsNavCall /\ NAV_CTL_POS \in call.flags /\ NAV_CTL_EMERG \notin call.flags
    /\ cfg.user_control_mode = NAV_GPS_ATTI
    /\ call.pre.posControl.flags.isAdjustingPosition

PilotSticksPassedThrough ==
    /\ rcCommand.ROLL = call.pre.rcCommand.ROLL
    /\ rcCommand.PITCH = call.pre.rcCommand.PITCH

C10_OverrideZeroesAdjustment ==
    IsPilotOverrideCall =>
        /\ posControl.rcAdjustment.ROLL = 0 /\ posControl.rcAdjustment.PITCH = 0
        /\ PilotSticksPassedThrough

\* C10 as amended: the pilot's rcCommand[ROLL|PITCH] pass through; the
\* rcAdjustment pair is zeroed only by the stale-tick reset or when the
\* position sensor is invalid, and otherwise keeps its previous value.
C10_OverrideKeepsAdjustment ==
    IsPilotOverrideCall =>
        /\ PilotSticksPassedThrough
        /\ IF SinceUpdate(call.pre.positionTimes) > StaleLimit
              \/ ~call.pre.posControl.flags.hasValidPositionSensor
           THEN posControl.rcAdjustment.ROLL = 0 /\ posControl.rcAdjustment.PITCH = 0
           ELSE /\ posControl.rcAdjustment.ROLL = call.pre.posControl.rcAdjustment.ROLL
                /\ posControl.rcAdjustment.PITCH = call.pre.posControl.rcAdjustment.PITCH

\* the pilot takes over, with a fresh sample, from a controller that was banking
C10_Witness ==
    /\ IsPilotOverrideCall
    /\ call.pre.posControl.flags.horizontalPositionDataNew
    /\ SinceUpdate(call.pre.positionTimes) <= StaleLimit
    /\ call.pre.posControl.rcAdjustment.PITCH # 0
    /\ call.pre.rcCommand.PITCH # pidAngleToRcCommand(call.pre.posControl.rcAdjustment.PITCH)
    /\ posControl.flags.horizontalPositionDataConsumed

(***************************************************************************)
(* C7: the integrating stages of the altitude, emergency and horizontal    *)
(* controllers only ever run with a delta that was validated as strictly   *)
(* below HZ2US(MIN_POSITION_UPDATE_RATE_HZ) on the same tick; a fresh      *)
(* sample whose delta is not below the threshold causes a reset instead of *)
(* an integration step.                                                    *)
(***************************************************************************)
Emergency == NAV_CTL_EMERG \in call.flags
AltitudeRuns == NAV_CTL_ALT \in call.flags /\ ~Emergency
PositionRuns == NAV_CTL_POS \in call.flags /\ ~Emergency

\* the sample timestamps that the stage of a log entry is integrated over
OwnerTimes(stage) ==
    IF Emergency THEN call.pre.emergencyTimes
    ELSE IF stage \in AltitudeStages THEN call.pre.altitudeTimes
    ELSE call.pre.positionTimes

IntegratesOverValidatedDelta ==
    \A i \in Ran(call.log, AltitudeStages \cup {"updatePositionAccelController_MC"}) :
        /\ call.log[i].arg = TICKS2US(SincePositionUpdate(OwnerTimes(call.log[i].stage)))
        /\ call.log[i].arg < HZ2US(MIN_POSITION_UPDATE_RATE_HZ)

LateVerticalSample(times) ==
    /\ call.pre.posControl.flags.verticalPositionDataNew
    /\ SincePositionUpdate(times) >= StaleLimit

LateHorizontalSample ==
    /\ call.pre.posControl.flags.horizontalPositionDataNew
    /\ SincePositionUpdate(call.pre.positionTimes) >= StaleLimit

AltitudeResetInsteadOfStep ==
    HasRun({"resetMulticopterAltitudeController"})
        /\ ~HasRun(AltitudeStages \cup {"updateAltitudeTargetFromClimbRate"})

PositionResetInsteadOfStep ==
    HasRun({"resetMulticopterPositionController"}) /\ ~HasRun(PositionStages)

C7_LateSampleAlwaysResets ==
    IsNavCall =>
        /\ IntegratesOverValidatedDelta
        /\ (AltitudeRuns /\ LateVerticalSample(call.pre.altitudeTimes)) => AltitudeResetInsteadOfStep
        /\ (Emergency /\ LateVerticalSample(call.pre.emergencyTimes)) => AltitudeResetInsteadOfStep
        /\ (PositionRuns /\ LateHorizontalSample) => PositionResetInsteadOfStep

\* C7 as amended: the late sample resets the altitude controller always, the
\* emergency controller when the altitude sensor is valid, and the position
\* controller when the tick is stale or the position sensor is valid and the
\* controller is not bypassed (GPS_ATTI with isAdjustingPosition); in the
\* remaining cases there is neither a reset nor an integration step.
C7_LateSampleResetsWhenProcessed ==
    IsNavCall =>
        LET flags == call.pre.posControl.flags
            bypassed == cfg.user_control_mode = NAV_GPS_ATTI /\ flags.isAdjustingPosition
            processed == \/ SinceUpdate(call.pre.positionTimes) > StaleLimit
                         \/ (flags.hasValidPositionSensor /\ ~bypassed)
        IN  /\ IntegratesOverValidatedDelta
            /\ (AltitudeRuns /\ LateVerticalSample(call.pre.altitudeTimes)) => AltitudeResetInsteadOfStep
            /\ (Emergency /\ LateVerticalSample(call.pre.emergencyTimes)) =>
                   IF flags.hasValidAltitudeSensor
                   THEN AltitudeResetInsteadOfStep
                   ELSE ~HasRun(AltitudeStages \cup {"resetMulticopterAltitudeController"})
            /\ (PositionRuns /\ LateHorizontalSample) =>
                   IF processed
                   THEN PositionResetInsteadOfStep
                   ELSE ~HasRun(PositionStages \cup {"resetMulticopterPositionController"})

\* one tick on which the altitude controller integrates over a validated
\* delta while the position controller, not stale, resets on a late sample
C7_Witness ==
    /\ IsNavCall /\ AltitudeRuns /\ PositionRuns
    /\ HasRun({"updateAltitudeThrottleController_MC"})
    /\ SinceUpdate(call.pre.positionTimes) <= StaleLimit
    /\ LateHorizontalSample
    /\ PositionResetInsteadOfStep

(***************************************************************************)
(* C8: with NAV_CTL_EMERG set only the emergency controller runs and       *)
(* rcAdjustment[ROLL|PITCH], horizontalPositionDataConsumed and            *)
(* magHoldTargetHeading are not written; otherwise the altitude, position  *)
(* and heading controllers each run iff NAV_CTL_ALT, NAV_CTL_POS,          *)
(* NAV_CTL_YAW is set, and with no bit set nothing is written.             *)
(***************************************************************************)
ControllersRun ==
    {call.log[i].stage : i \in Ran(call.log, {"applyMulticopterEmergencyLandingController",
                                               "applyMulticopterAltitudeController",
                                               "applyMulticopterPositionController",
                                               "applyMulticopterHeadingController"})}

ControllersSelected ==
    IF Emergency THEN {"applyMulticopterEmergencyLandingController"}
    ELSE {"applyMulticopterAltitudeController" : x \in call.flags \cap {NAV_CTL_ALT}}
         \cup {"applyMulticopterPositionController" : x \in call.flags \cap {NAV_CTL_POS}}
         \cup {"applyMulticopterHeadingController" : x \in call.flags \cap {NAV_CTL_YAW}}

C8_DispatchByFlags ==
    IsNavCall =>
        /\ ControllersRun = ControllersSelected
        /\ (altitudeTimes # call.pre.altitudeTimes) <=> AltitudeRuns
        /\ (positionTimes # call.pre.positionTimes) <=> PositionRuns
        /\ (emergencyTimes # call.pre.emergencyTimes) <=> Emergency
        /\ magHoldTargetHeading =
               (IF NAV_CTL_YAW \in call.flags /\ ~Emergency
                THEN CENTIDEGREES_TO_DEGREES(call.pre.posControl.desiredState.yaw)
                ELSE call.pre.magHoldTargetHeading)
        /\ Emergency =>
               /\ posControl.rcAdjustment.ROLL = call.pre.posControl.rcAdjustment.ROLL
               /\ posControl.rcAdjustment.PITCH = call.pre.posControl.rcAdjustment.PITCH
               /\ posControl.flags.horizontalPositionDataConsumed
                      = call.pre.posControl.flags.horizontalPositionDataConsumed
        /\ (call.flags = {}) => Machine(call.pre.env) = call.pre

\* an emergency tick with every other bit set, a fresh horizontal sample and
\* a new heading target waiting, after the position controller had banked
C8_Witness ==
    /\ IsNavCall
    /\ call.flags = {NAV_CTL_ALT, NAV_CTL_POS, NAV_CTL_YAW, NAV_CTL_EMERG}
    /\ call.pre.posControl.flags.horizontalPositionDataNew
    /\ call.pre.posControl.rcAdjustment.PITCH # 0
    /\ CENTIDEGREES_TO_DEGREES(call.pre.posControl.desiredState.yaw) # magHoldTargetHeading

(***************************************************************************)
(* C4: isMulticopterLandingDetected returns true only if the sticky flag   *)
(* *hasHadSomeVelocity is true at that poll: a craft that never descended  *)
(* faster than 25 cm/s since the caller cleared the flag is never reported *)
(* as landed.                                                              *)
(***************************************************************************)
IsLandingPoll == call.op = "isMulticopterLandingDetected"

C4_LandedOnlyAfterDescent == (IsLandingPoll /\ call.result) => hasHadSomeVelocity

(***************************************************************************)
(* C5: a poll of the land detector returns true only if the landing        *)
(* conditions (|vel.Z| <= 25, velXY <= 100, adjusted throttle below        *)
(* mc_min_fly_throttle, sonar at most 5 cm above surfaceMin) held at that  *)
(* poll and at every poll during more than LAND_DETECTOR_TRIGGER_TIME_MS   *)
(* before it; a poll at which a condition is violated sets *landingTimer   *)
(* to the current time and returns false.                                  *)
(***************************************************************************)
ConditionsHeldAtPoll ==
    LandingConditionsHold(call.pre.posControl.actualState, call.pre.posControl.flags,
                          call.pre.rcCommandAdjustedThrottle)

C5_LandedAfterTriggerTime ==
    IsLandingPoll =>
        /\ call.result =>
               /\ ConditionsHeldAtPoll
               /\ TICKS2US(uptime - lastViolation) > LAND_DETECTOR_TRIGGER_TIME_MS * 1000
        /\ ~ConditionsHeldAtPoll => (~call.result /\ landingTimer = call.time)

\* a landing reported across the wrap of the microsecond clock
C5_Witness ==
    /\ IsLandingPoll /\ call.result
    /\ call.time < landingTimer

(***************************************************************************)
(* C1: after every call of pidController each published axis output is     *)
(* bounded by the output limit: |axisPID[a]| <= PID_MAX_OUTPUT for roll,   *)
(* pitch and yaw, for all stick inputs, gyro rates, gains, flight-mode     *)
(* flags, saturation flags and prior integrator states.                    *)
(***************************************************************************)
C1_AxisOutputBounded ==
    call.op = "pidController" =>
        \A axis \in Axes :
            /\ axisPID[axis] >= -PID_MAX_OUTPUT
            /\ axisPID[axis] <= PID_MAX_OUTPUT

(***************************************************************************)
(* C11: on every position-controller tick with hasValidPositionSensor      *)
(* false, rcAdjustment[ROLL] and rcAdjustment[PITCH] are zero after the    *)
(* tick and rcCommand[ROLL] and rcCommand[PITCH] are left unchanged,       *)
(* whether or not a fresh horizontal sample is flagged and whether or not  *)
(* the tick is stale.                                                      *)
(***************************************************************************)
IsPositionLossCall ==
    /\ IsNavCall /\ NAV_CTL_POS \in call.flags /\ NAV_CTL_EMERG \notin call.flags
    /\ ~call.pre.posControl.flags.hasValidPositionSensor

C11_PositionLossPassesSticksThrough ==
    IsPositionLossCall =>
        /\ posControl.rcAdjustment.ROLL = 0 /\ posControl.rcAdjustment.PITCH = 0
        /\ PilotSticksPassedThrough

\* the position fix is lost, on a tick that is not stale and flags no fresh
\* sample, while the controller was banking
C11_Witness ==
    /\ IsPositionLossCall
    /\ SinceUpdate(call.pre.positionTimes) <= StaleLimit
    /\ ~call.pre.posControl.flags.horizontalPositionDataNew
    /\ call.pre.posControl.rcAdjustment.PITCH # 0
    /\ call.pre.rcCommand.ROLL # 0

(***************************************************************************)
(* C12: in pidMagHold, for every current heading and every target heading  *)
(* (raw error = currentYaw - target = e + 360n), the error used to compute *)
(* the rate is the representative e in (-180, +180]; heading 1 degree with *)
(* target 359 degrees gives error +2 and a positive yaw rate.              *)
(***************************************************************************)
IsMagHoldCall == call.op = "pidMagHold"

RawHeadingError ==
    DECIDEGREES_TO_DEGREES(call.pre.env.attitude.YAW) - call.pre.magHoldTargetHeading

C12_ErrorWrappedToHalfOpenInterval ==
    IsMagHoldCall =>
        /\ (call.result.error - RawHeadingError) % 360 = 0
        /\ -180 < call.result.error /\ call.result.error <= 180
        /\ (DECIDEGREES_TO_DEGREES(call.pre.env.attitude.YAW) = 1
              /\ call.pre.magHoldTargetHeading = 359)
               => (call.result.error = 2 /\ call.result.rate > 0)

(***************************************************************************)
(* C13: over any run of consecutive rate-PID ticks during which            *)
(* motorLimitReached stays set, |errorGyroIf| on each axis is monotone     *)
(* non-increasing from tick to tick, for every sequence of rate errors.    *)
(***************************************************************************)
IsLimitedTick(c) == c.op = "pidController" /\ c.pre.env.motorLimitReached

\* |a| <= |b| on floats: false when either is NaN
MagnitudeAtMost(a, b) == ~IsNaN(a) /\ ~IsNaN(b) /\ ABS(Val(a)) <= ABS(Val(b))

ThrottleZeroMin == cfg.minthrottle + cfg.alt_hold_deadband + 10
ThrottleZeroMax == cfg.maxthrottle - cfg.alt_hold_deadband - 10

ThrottleZeroInRange ==
    ThrottleZeroMin <= altHoldThrottleRCZero /\ altHoldThrottleRCZero <= ThrottleZeroMax

IsSetupCall == call.op = "setupMulticopterAltitudeController"

C14_ThrottleZeroAlwaysInRange == ThrottleZeroInRange

\* C14 as amended: where the configured range is not empty, the value is
\* within it after every call of setupMulticopterAltitudeController; until
\* the first call the value is 1500, whatever the range.
C14_ThrottleZeroInRangeAfterSetup ==
    /\ (IsSetupCall /\ ThrottleZeroMin <= ThrottleZeroMax) => ThrottleZeroInRange
    /\ altHoldThrottleRCZero = 1500 \/ (ThrottleZeroMin <= ThrottleZeroMax => ThrottleZeroInRange)

\* the throttle captured from the stick was above the range and is held at its top
C14_Witness ==
    /\ IsSetupCall
    /\ ~cfg.use_thr_mid_for_althold /\ call.pre.env.throttleStatus = "THROTTLE_HIGH"
    /\ ThrottleZeroMin <= ThrottleZeroMax
    /\ call.pre.rcCommand.THROTTLE > ThrottleZeroMax
    /\ altHoldThrottleRCZero = ThrottleZeroMax
    /\ altHoldThrottleRCZero # 1500

StickDeflections == {-500, 0, 200, 500}

\* pid.c after one loop with the roll and pitch sticks deflected, airframe at rest
Deflected(config, roll, pitch) ==
    pidController([ConfiguredPid(config) EXCEPT
                      !.rcCommand = [BasePidInput.rc EXCEPT !.ROLL = roll, !.PITCH = pitch],
                      !.env = BasePidInput.env @@ [nanAsInt16 |-> 0]])

InitReset ==
    /\ InitProgram({DefaultConfig}, {0})
    /\ \E roll \in StickDeflections, pitch \in StickDeflections :
          /\ pidState = Deflected(cfg, roll, pitch).pidState
          /\ axisPID = Deflected(cfg, roll, pitch).axisPID
    /\ tpaFactor = ConfiguredPid(cfg).tpaFactor

ResetInputs == {[BasePidInput EXCEPT !.rc.ROLL = roll] : roll \in {0, 200}}

ResetTick == \E in \in ResetInputs : PidTick(in, 0)

NextReset == ResetTick \/ PidReset

SpecReset == InitReset /\ [][NextReset]_vars

\* the rate error of the last loop was zero on every axis
ZeroRateError(ps) == \A axis \in Axes : ps[axis].rateTarget = ps[axis].gyroRate

\* the D-term history holds one constant rate and the filters are at rest
SteadyState(ps) ==
    \A axis \in Axes :
        /\ \A i \in 1..5 : ps[axis].dTermBuf[i] = ps[axis].gyroRate
        /\ ps[axis].ptermLpfState = 0
        /\ ps[axis].deltaLpfState = 0

\* a reset after a loop at zero rate error and steady state is followed by
\* another loop at zero rate error
ResetThenZeroErrorTick ==
    /\ call.op = "pidResetErrorAccumulators"
    /\ ZeroRateError(pidState) /\ SteadyState(pidState)
    /\ call'.op = "pidController"
    /\ ZeroRateError(pidState')

(***************************************************************************)
(* C16: calling pidResetErrorAccumulators and then running one             *)
(* pidController tick with zero rate error on every axis leaves each       *)
(* axisPID[axis] equal to the value it had on the tick before the reset    *)
(* (D-term and filters at steady state), for every pre-reset integrator.   *)
(***************************************************************************)
C16_ResetIsBumpless ==
    [][ResetThenZeroErrorTick => axisPID' = axisPID]_vars

\* as the code has it: the loop after the reset outputs zero on every axis,
\* which is the output before the reset only if that was zero as well
C16_ResetZeroesOutput ==
    [][ResetThenZeroErrorTick =>
          /\ \A axis \in Axes : axisPID'[axis] = 0
          /\ (axisPID' = axisPID) <=> (\A axis \in Axes : axisPID[axis] = 0)]_vars

\* a loop at zero rate error right after a reset that took a non-zero roll
\* output away
C16_Witness ==
    /\ call.op = "pidController"
    /\ ZeroRateError(pidState) /\ SteadyState(pidState)
    /\ ZeroRateError(call.pre.pidState)
    /\ \A axis \in Axes : call.pre.pidState[axis].errorGyroIfLimit = Fin(0)
    /\ call.pre.axisPID.ROLL # 0
    /\ axisPID.ROLL = 0

(***************************************************************************)
(* The loiter target: where the vehicle comes to rest                      *)
(***************************************************************************)
\* posDecelerationTime in seconds: none, the default, ten seconds
DecelerationTimes == {0, 120, 1000}

\* the estimator's horizontal position (cm) and velocity (cm/s)
HoldInputs ==
    {[pos |-> Vector(px, py, 0), vel |-> Vector(vx, vy, 0), posDecelerationTime |-> t]
        : px \in {F(-400), 0, 123407}, py \in {0, F(50)},
          vx \in {F(-300), 0, 1, 250}, vy \in {0, -120},
          t \in DecelerationTimes}

HoldPositionCall(pre) ==
    /\ Commit(pre)
    /\ call' = CallRecord("calculateMulticopterInitialHoldPosition", {}, micros, pre, pre,
                          calculateMulticopterInitialHoldPosition(pre))

\* the hold point of a freshly estimated position and velocity
HoldPositionQuery ==
    /\ ncalls < MaxCalls
    /\ \E in \in HoldInputs :
          HoldPositionCall([Machine([navStateFlags |-> {}]) EXCEPT
                               !.posControl.actualState.pos = in.pos,
                               !.posControl.actualState.vel = in.vel,
                               !.posControl.posDecelerationTime = in.posDecelerationTime])
    /\ ncalls' = ncalls + 1
    /\ UNCHANGED <<uptime, cfg, landVars, pidVars>>

\* the hold point asked for again, nothing having changed
HoldPositionRepeat ==
    /\ ncalls < MaxCalls
    /\ call.op = "calculateMulticopterInitialHoldPosition"
    /\ HoldPositionCall(Machine([navStateFlags |-> {}]))
    /\ ncalls' = ncalls + 1
    /\ UNCHANGED <<uptime, cfg, landVars, pidVars>>

InitHold == InitWith({DefaultConfig}, {0})

NextHold == HoldPositionQuery \/ HoldPositionRepeat

SpecHold == InitHold /\ [][NextHold]_vars

IsHoldPositionCall == call.op = "calculateMulticopterInitialHoldPosition"

INT16_MIN == -32768
INT16_MAX == 32767

\* both ends of the int16 range and the sticks around centre
Int16Samples == (INT16_MIN .. INT16_MIN + 40) \cup (-45 .. 45) \cup (INT16_MAX - 40 .. INT16_MAX)

Conversion(op, input, there, back) ==
    /\ ncalls < MaxCalls
    /\ call' = [op |-> op, flags |-> {}, time |-> micros, log |-> <<>>,
                pre |-> [input |-> input], result |-> [there |-> there, back |-> back]]
    /\ ncalls' = ncalls + 1
    /\ UNCHANGED <<uptime, cfg, rcCommand, magHoldTargetHeading, navVars, landVars, pidVars>>

\* an angle made a stick position and an angle again
AngleToStickToAngle ==
    \E x \in Int16Samples :
        Conversion("pidAngleToRcCommand", x, pidAngleToRcCommand(x),
                   pidRcCommandToAngle(pidAngleToRcCommand(x)))

\* a stick position made an angle and a stick position again
StickToAngleToStick ==
    \E s \in Int16Samples :
        Conversion("pidRcCommandToAngle", s, pidRcCommandToAngle(s),
                   pidAngleToRcCommand(pidRcCommandToAngle(s)))

InitAngle == InitWith({DefaultConfig}, {0})

NextAngle == AngleToStickToAngle \/ StickToAngleToStick

SpecAngle == InitAngle /\ [][NextAngle]_vars

(***************************************************************************)
(* C18: for every integer deci-degree angle x in the int16 range,          *)
(* pidRcCommandToAngle(pidAngleToRcCommand(x)) is x within 1 deci-degree,  *)
(* and for every stick value s, pidAngleToRcCommand(pidRcCommandToAngle(s))*)
(* is s exactly.                                                           *)
(***************************************************************************)
C18_AngleStickRoundTrip ==
    /\ call.op = "pidAngleToRcCommand" =>
          /\ call.result.back - call.pre.input \in -1 .. 1
          /\ call.result.there \in INT16_MIN .. INT16_MAX
    /\ call.op = "pidRcCommandToAngle" => call.result.back = call.pre.input

\* an odd angle, which loses its last deci-degree
C18_Witness ==
    /\ call.op = "pidAngleToRcCommand"
    /\ call.pre.input = INT16_MAX
    /\ call.result.back = INT16_MAX - 1

(***************************************************************************)
(* Stick units and rotation rates, in single precision                     *)
(***************************************************************************)
\* a float is m * 2^e with 2^23 <= |m| < 2^24, or zero
SignificandBits == 24

RECURSIVE RoundSingle(_, _, _)
\* the float nearest to (a / d) * 2^e for a >= 0 and d > 0, ties to even
RoundSingle(a, d, e) ==
    IF a = 0 THEN [m |-> 0, e |-> 0]
    ELSE IF a < d * 2^(SignificandBits - 1) THEN RoundSingle(2 * a, d, e - 1)
    ELSE IF a \div 2^SignificandBits >= d THEN RoundSingle(a, 2 * d, e + 1)
    ELSE LET q == a \div d
             rem == a % d
             m == IF 2 * rem > d \/ (2 * rem = d /\ q % 2 = 1) THEN q + 1 ELSE q
         IN  IF m = 2^SignificandBits
             THEN [m |-> 2^(SignificandBits - 1), e |-> e + 1]
             ELSE [m |-> m, e |-> e]

SingleOf(n, d, e) ==
    IF n < 0 THEN [RoundSingle(-n, d, e) EXCEPT !.m = -@] ELSE RoundSingle(n, d, e)

\* (float)i
SingleOfInt(i) == SingleOf(i, 1, 0)

\* x * k and x / k for a float x and a small integer constant k
SingleTimes(x, k) == SingleOf(x.m * k, 1, x.e)
SingleOver(x, k) == SingleOf(x.m, k, x.e)

\* (int16_t)x, within the int16 range: the fraction is dropped
SingleToInt(x) == IF x.e >= 0 THEN x.m * 2^x.e ELSE Quot(x.m, 2^(-x.e))

pidRateToRcCommandHalfOffset(rateDPS, rate) == SingleOver(SingleTimes(rateDPS, 50), rate + 10)

pidRateToRcCommand(rateDPS, rate) == SingleOver(SingleTimes(rateDPS, 50), rate + 20)

\* pidRcCommandToRate as the build computes it: the integer product made a float, over 50.0f
pidRcCommandToRateSingle(stick, rate) == SingleOver(SingleOfInt((rate + 20) * stick), 50)

\* controlRateConfig.rates[axis]
RateSettings == {0, 20, 70, 100}

StickSamples == (-410 .. -395) \cup (-5 .. 5) \cup (395 .. 410) \cup {-500, 500}

\* rotation rates in whole degrees per second
RateSamples == (-8 .. 8) \cup {-733, 200}

\* a stick position made a rate and a stick position again
StickToRateToStick ==
    \E s \in StickSamples, rate \in RateSettings :
        Conversion("pidRcCommandToRate", [value |-> s, rate |-> rate],
                   pidRcCommandToRateSingle(s, rate),
                   pidRateToRcCommand(pidRcCommandToRateSingle(s, rate), rate))

\* a rate made a stick position, passed on as int16_t, and a rate again
RateToStickToRate ==
    \E r \in RateSamples, rate \in RateSettings :
        Conversion("pidRateToRcCommand", [value |-> r, rate |-> rate],
                   pidRateToRcCommand(SingleOfInt(r), rate),
                   pidRcCommandToRateSingle(
                       SingleToInt(pidRateToRcCommand(SingleOfInt(r), rate)), rate))

InitRate == InitWith({DefaultConfig}, {0})

NextRate == StickToRateToStick \/ RateToStickToRate

SpecRate == InitRate /\ [][NextRate]_vars

\* the distance of the float x from the integer i, in units of x's last place
UlpsFrom(x, i) == ABS(x.m - i * 2^(-x.e))

TowardsZero(i) == IF i > 0 THEN i - 1 ELSE IF i < 0 THEN i + 1 ELSE 0

(***************************************************************************)
(* C19: for every rate setting and stick value s,                          *)
(* pidRateToRcCommand(pidRcCommandToRate(s, rate), rate) == s, and for     *)
(* every rate in dps r,                                                    *)
(* pidRcCommandToRate(pidRateToRcCommand(r, rate), rate) == r: the two     *)
(* conversions are mutual inverses.                                        *)
(***************************************************************************)
C19_RateStickMutualInverses ==
    /\ call.op = "pidRcCommandToRate" => call.result.back = SingleOfInt(call.pre.input.value)
    /\ call.op = "pidRateToRcCommand" => call.result.back = SingleOfInt(call.pre.input.value)

\* as the code has it: the stick comes back within one unit in the last place
\* of the float, so that as an int16_t it is s or one nearer zero; the rate
\* comes back as the rate of the stick truncated to int16_t, which is r only
\* if r * 50 / (rate + 20) is a whole number
C19_RateStickRoundTrips ==
    /\ call.op = "pidRcCommandToRate" =>
          LET s == call.pre.input.value
              back == call.result.back
          IN  /\ back.e <= 0 /\ UlpsFrom(back, s) <= 1
              /\ SingleToInt(back) \in {s, TowardsZero(s)}
    /\ call.op = "pidRateToRcCommand" =>
          LET r == call.pre.input.value
              d == call.pre.input.rate + 20
              stick == SingleToInt(call.result.there)
          IN  /\ stick = Quot(50 * r, d)
              /\ call.result.back = pidRcCommandToRateSingle(stick, call.pre.input.rate)
              /\ call.result.back = SingleOfInt(r) <=> (50 * ABS(r)) % d = 0

\* 1 dps at rate setting 0 is stick 2.5, passed on as 2, which is 0.8 dps
C19_Witness ==
    /\ call.op = "pidRateToRcCommand"
    /\ call.pre.input = [value |-> 1, rate |-> 0]
    /\ SingleToInt(call.result.there) = 2
    /\ call.result.back = SingleOf(4, 5, 0)

(***************************************************************************)
(* Throttle PID attenuation over the throttle range                        *)
(***************************************************************************)
TpaThrottles == {1000, 1499, 1500, 1505, 1750, 1755, 1999, 2000, 2100}

TpaConfigs ==
    {[DefaultConfig EXCEPT !.controlRateConfig.dynThrPID = tpa,
                           !.controlRateConfig.tpa_breakpoint = breakpoint]
        : tpa \in {0, 30, 50, 100}, breakpoint \in {1500, 1650}}

TpaGainUpdate ==
    \E thr \in TpaThrottles :
        PidCoefficients([BasePidInput EXCEPT !.env.rcData.THROTTLE = thr])

InitTpa == InitWith(TpaConfigs, {0})

NextTpa == TpaGainUpdate \/ PidReset

SpecTpa == InitTpa /\ [][NextTpa]_vars

IsGainUpdate == call.op = "updatePIDCoefficients"

\* the three throttle ranges of the attenuation
BelowBreakpoint(c) ==
    \/ c.pre.controlRateConfig.dynThrPID = 0
    \/ c.pre.env.rcData.THROTTLE < c.pre.controlRateConfig.tpa_breakpoint

OnTheSlope(c) == ~BelowBreakpoint(c) /\ c.pre.env.rcData.THROTTLE < 2000

\* 100 * (2000 - breakpoint) times the factor 1 - (dynThrPID/100) * (throttle - breakpoint) / (2000 - breakpoint)
LinearTpaScaled(c) ==
    100 * (2000 - c.pre.controlRateConfig.tpa_breakpoint)
        - c.pre.controlRateConfig.dynThrPID
            * (c.pre.env.rcData.THROTTLE - c.pre.controlRateConfig.tpa_breakpoint)

TpaElsewhere(c) ==
    /\ BelowBreakpoint(c) => tpaFactor = 100
    /\ (~BelowBreakpoint(c) /\ ~OnTheSlope(c)) =>
           tpaFactor = 100 - c.pre.controlRateConfig.dynThrPID
    /\ (c.pre.controlRateConfig.dynThrPID = 50 /\ c.pre.controlRateConfig.tpa_breakpoint = 1500) =>
          /\ c.pre.env.rcData.THROTTLE = 1500 => tpaFactor = 100
          /\ c.pre.env.rcData.THROTTLE = 1750 => tpaFactor = 75
          /\ c.pre.env.rcData.THROTTLE = 2000 => tpaFactor = 50

GainsScaled(c) ==
    /\ \A axis \in {"ROLL", "PITCH"} :
          pidState[axis].kP = FMul(Quot(c.pre.pidProfile.P8[axis] * 100, 40), tpaFactor)
    /\ pidState.YAW.kP = Quot(c.pre.pidProfile.P8.YAW * 100, 40)
    /\ pidState.YAW.kI = c.pre.pidProfile.I8.YAW * 10
    /\ pidState.YAW.kD = c.pre.pidProfile.D8.YAW * 250

TpaNonIncreasing(c) ==
    \A thr \in TpaThrottles :
        thr <= c.pre.env.rcData.THROTTLE =>
            updatePIDCoefficients([c.pre EXCEPT !.env.rcData.THROTTLE = thr]).tpaFactor
                >= tpaFactor

(***************************************************************************)
(* C20: updatePIDCoefficients scales roll and pitch kP by tpa, where       *)
(* tpa = 1 when dynThrPID == 0 or throttle < tpa_breakpoint,               *)
(* tpa = 1 - (dynThrPID/100)*(throttle - breakpoint)/(2000 - breakpoint)   *)
(* for breakpoint <= throttle < 2000, and tpa = 1 - dynThrPID/100 for      *)
(* throttle >= 2000 (dynThrPID 50, breakpoint 1500: 1.0 at 1500, 0.75 at   *)
(* 1750, 0.5 at 2000); tpa is non-increasing in throttle and the yaw gains *)
(* are never scaled.                                                       *)
(***************************************************************************)
C20_TpaLinearOnTheSlope ==
    IsGainUpdate =>
        /\ TpaElsewhere(call)
        /\ OnTheSlope(call) =>
               tpaFactor * (2000 - call.pre.controlRateConfig.tpa_breakpoint)
                   = LinearTpaScaled(call)
        /\ GainsScaled(call)
        /\ TpaNonIncreasing(call)

\* as the code has it: on the slope the attenuation is a whole number of
\* percent, the linear one with its fraction dropped
C20_TpaWholePercentOnTheSlope ==
    IsGainUpdate =>
        /\ TpaElsewhere(call)
        /\ OnTheSlope(call) =>
              LET span == 2000 - call.pre.controlRateConfig.tpa_breakpoint
              IN  /\ tpaFactor = 100 - (call.pre.controlRateConfig.dynThrPID
                                          * (call.pre.env.rcData.THROTTLE
                                               - call.pre.controlRateConfig.tpa_breakpoint))
                                       \div span
                  /\ LinearTpaScaled(call) <= tpaFactor * span
                  /\ tpaFactor * span < LinearTpaScaled(call) + span
        /\ GainsScaled(call)
        /\ TpaNonIncreasing(call)

\* dynThrPID 50, breakpoint 1500, throttle 1755: 0.75 where the line is at 0.745
C20_Witness ==
    /\ IsGainUpdate
    /\ call.pre.controlRateConfig.dynThrPID = 50
    /\ call.pre.controlRateConfig.tpa_breakpoint = 1500
    /\ call.pre.env.rcData.THROTTLE = 1755
    /\ tpaFactor = 75
    /\ pidState.ROLL.kP = 75

(***************************************************************************)
(* The MAG_HOLD state, by sensor, attitude, navigation and yaw stick       *)
(***************************************************************************)
\* the yaw stick around the edge of the hold window
YawSticks == {-500, -15, -14, 0, 14, 15, 500}

MagHoldStateInputs ==
    {[BasePidInput EXCEPT !.rc.YAW = yaw,
                          !.env.sensorsMag = mag,
                          !.env.stateFlags = IF small THEN {"SMALL_ANGLE"} ELSE {},
                          !.env.flightModes = IF magMode THEN {"MAG_MODE"} ELSE {},
                          !.env.navHeadingState = nav]
        : yaw \in YawSticks, mag \in BOOLEAN, small \in BOOLEAN, magMode \in BOOLEAN,
          nav \in {NAV_HEADING_CONTROL_NONE, NAV_HEADING_CONTROL_AUTO,
                   NAV_HEADING_CONTROL_MANUAL}}

MagHoldStateCall(pm) ==
    /\ ncalls < MaxCalls
    /\ rcCommand' = pm.rcCommand
    /\ call' = [PidCall("getMagHoldState", pm, pm) EXCEPT !.result = getMagHoldState(pm)]
    /\ ncalls' = ncalls + 1
    /\ UNCHANGED <<uptime, cfg, navVars, landVars, pidVars, magHoldTargetHeading>>

MagHoldStateQuery ==
    \E in \in MagHoldStateInputs :
        MagHoldStateCall([PidMachine(in.env) EXCEPT !.rcCommand = in.rc])

InitMagState == InitWith({DefaultConfig}, {0})

NextMagState == MagHoldStateQuery

SpecMagState == InitMagState /\ [][NextMagState]_vars

IsMagHoldStateCall == call.op = "getMagHoldState"

MagHoldUsable(c) == c.pre.env.sensorsMag /\ "SMALL_ANGLE" \in c.pre.env.stateFlags

\* what the sticks and MAG_MODE select when navigation asks for nothing
MagHoldByPilot(c) ==
    IF ABS(c.pre.rcCommand.YAW) < 15 /\ "MAG_MODE" \in c.pre.env.flightModes
    THEN MAG_HOLD_ENABLED
    ELSE MAG_HOLD_UPDATE_HEADING

MagHoldStateAs(c, otherwise) ==
    /\ ~MagHoldUsable(c) => c.result = MAG_HOLD_DISABLED
    /\ MagHoldUsable(c) =>
          c.result = CASE c.pre.env.navHeadingState = NAV_HEADING_CONTROL_AUTO -> MAG_HOLD_ENABLED
                       [] c.pre.env.navHeadingState = NAV_HEADING_CONTROL_NONE -> MagHoldByPilot(c)
                       [] OTHER -> otherwise

(***************************************************************************)
(* C21: getMagHoldState returns DISABLED when the magnetometer is absent   *)
(* or SMALL_ANGLE is not set; otherwise ENABLED when navigation heading    *)
(* control is AUTO, DISABLED when navigation requests any other (non-NONE) *)
(* heading control, and, with no navigation heading control, ENABLED if    *)
(* |rcCommand[YAW]| < 15 and MAG_MODE is active, UPDATE_HEADING otherwise. *)
(***************************************************************************)
C21_ManualHeadingControlDisables ==
    IsMagHoldStateCall => MagHoldStateAs(call, MAG_HOLD_DISABLED)

\* as the code has it: any other heading control of navigation gives UPDATE_HEADING
C21_ManualHeadingControlUpdatesHeading ==
    IsMagHoldStateCall => MagHoldStateAs(call, MAG_HOLD_UPDATE_HEADING)

\* navigation in manual heading control, the yaw stick centred, MAG_MODE on
C21_Witness ==
    /\ IsMagHoldStateCall /\ MagHoldUsable(call)
    /\ call.pre.env.navHeadingState = NAV_HEADING_CONTROL_MANUAL
    /\ call.pre.rcCommand.YAW = 0 /\ "MAG_MODE" \in call.pre.env.flightModes
    /\ call.result = MAG_HOLD_UPDATE_HEADING

(***************************************************************************)
(* Rate targets in the flight modes: self-levelling, heading lock, MAG     *)
(***************************************************************************)
\* the defaults, and the strongest self-levelling the profile can hold with
\* the fastest roll and pitch rates
LevelConfigs ==
    {DefaultConfig,
     [DefaultConfig EXCEPT !.pidProfile.P8.PIDLEVEL = 255,
                           !.pidProfile.I8.PIDLEVEL = 0,
                           !.pidProfile.D8.PIDLEVEL = 255,
                           !.controlRateConfig.rates.ROLL = 100,
                           !.controlRateConfig.rates.PITCH = 100]}

\* sticks (rcData and the rcCommand derived from it) and attitude by mode
LevelInputs ==
    LET banged == [BasePidInput EXCEPT !.rc.ROLL = 500, !.env.rcData.ROLL = 2000]
        inverted == [banged EXCEPT !.env.attitude.ROLL = -1800, !.env.stateFlags = {}]
    IN  {banged,
         [inverted EXCEPT !.env.flightModes = {"ANGLE_MODE"}],
         [inverted EXCEPT !.env.flightModes = {"HORIZON_MODE"}],
         [BasePidInput EXCEPT !.env.flightModes = {"HORIZON_MODE", "HEADING_LOCK"},
                              !.env.attitude.PITCH = 450],
         [BasePidInput EXCEPT !.env.flightModes = {"HEADING_LOCK"},
                              !.env.gyroRate.YAW = F(-400)],
         [BasePidInput EXCEPT !.env.flightModes = {"MAG_MODE", "HEADING_LOCK"},
                              !.env.attitude.YAW = 1800],
         [BasePidInput EXCEPT !.rc.YAW = -500, !.env.rcData.YAW = 1000,
                              !.env.flightModes = {"MAG_MODE", "ANGLE_MODE"}]}

LevelTick == \E in \in LevelInputs : PidTick(in, 0)

InitLevel == InitConfigured(LevelConfigs)

NextLevel == LevelTick \/ PidReset

SpecLevel == InitLevel /\ [][NextLevel]_vars

(***************************************************************************)
(* C22: on every pidController tick and every axis, the rate target that   *)
(* the rate PID consumes lies in [-1800, +1800] dps: the clamp to          *)
(* GYRO_SATURATION_LIMIT is the final step of rate-target selection, after *)
(* the ANGLE/HORIZON contribution and the heading-lock replacement, in     *)
(* every combination of ANGLE_MODE, HORIZON_MODE, HEADING_LOCK and         *)
(* mag-hold state.                                                         *)
(***************************************************************************)
C22_RateTargetWithinGyroRange ==
    call.op = "pidController" =>
        \A axis \in Axes :
            /\ -F(GYRO_SATURATION_LIMIT) <= pidState[axis].rateTarget
            /\ pidState[axis].rateTarget <= F(GYRO_SATURATION_LIMIT)

\* the time step of the acceleration stage of the last call
AccelStageRuns == Ran(call.log, {"updatePositionAccelController_MC"})

(***************************************************************************)
(* C23: on every run of the horizontal velocity->acceleration stage with   *)
(* time step dT, each axis's new acceleration target differs from that     *)
(* axis's previous target (lastAccelTarget, 0 after a reset) by at most    *)
(* 1700*dT, for every sequence of velocity errors including ones whose     *)
(* direction changes between updates.                                      *)
(***************************************************************************)
C23_AccelerationTargetSlewLimited ==
    IsNavCall =>
        \A i \in AccelStageRuns :
            /\ ABS(lastAccelTarget.X - call.pre.lastAccelTarget.X) <= MulDt(F(1700), call.log[i].arg)
            /\ ABS(lastAccelTarget.Y - call.pre.lastAccelTarget.Y) <= MulDt(F(1700), call.log[i].arg)

(***************************************************************************)
(* The rate controller under the mixer's reports: motors at their limit,   *)
(* ANTI_WINDUP, PID_ATTENUATE                                              *)
(***************************************************************************)
MixerReports ==
    {[limit |-> limit, flags |-> flags]
        : limit \in BOOLEAN, flags \in SUBSET {"ANTI_WINDUP", "PID_ATTENUATE"}}

\* the roll stick held over under every report, pulled back under some
SaturationInputs ==
    {[BasePidInput EXCEPT !.rc.ROLL = 500, !.rc.YAW = 100,
                          !.env.motorLimitReached = r.limit,
                          !.env.stateFlags = {"SMALL_ANGLE"} \cup r.flags] : r \in MixerReports}
    \cup
    {[BasePidInput EXCEPT !.rc.ROLL = -200,
                          !.env.motorLimitReached = r.limit,
                          !.env.stateFlags = {"SMALL_ANGLE"} \cup r.flags]
        : r \in {r \in MixerReports : r.limit => r.flags = {}}}

SaturationTick == \E in \in SaturationInputs : PidTick(in, 0)

InitSaturation == InitConfigured({DefaultConfig})

NextSaturation == SaturationTick \/ PidReset

SpecSaturation == InitSaturation /\ [][NextSaturation]_vars

IsRateTick == call.op = "pidController"

\* the P and D terms of the last tick, read back from the state it left
PTermOf(axis) ==
    IF axis = "YAW" /\ cfg.pidProfile.yaw_lpf_hz # 0
    THEN pidState[axis].ptermLpfState
    ELSE FMul(pidState[axis].rateTarget - pidState[axis].gyroRate, pidState[axis].kP)

DTermOf(axis) ==
    IF cfg.pidProfile.D8[axis] # 0 /\ cfg.pidProfile.dterm_lpf_hz # 0
    THEN pidState[axis].deltaLpfState
    ELSE 0

\* axisPID[axis] is P+D times the factor (percent) plus the integrator before the tick
OutputWithFactor(axis, factor) ==
    axisPID[axis] = ToInt(Val(OutputLimited(
        Fin(FMul(PTermOf(axis) + DTermOf(axis), factor)
              + Val(call.pre.pidState[axis].errorGyroIf)))))

EnvelopeFrozen(axis) ==
    pidState[axis].errorGyroIfLimit = call.pre.pidState[axis].errorGyroIfLimit

EnvelopeTracks(axis) ==
    pidState[axis].errorGyroIfLimit = Fin(ABS(Val(pidState[axis].errorGyroIf)))

\* freeze on the condition freezeOn, attenuate on the condition attenuateOn
SaturationPolicy(freezeOn, attenuateOn) ==
    \A axis \in Axes :
        /\ IF freezeOn THEN EnvelopeFrozen(axis) ELSE EnvelopeTracks(axis)
        /\ OutputWithFactor(axis, IF attenuateOn THEN 33 ELSE 100)

(***************************************************************************)
(* C24: on every tick on which motorLimitReached or PID_ATTENUATE is set,  *)
(* the integrator envelope errorGyroIfLimit is frozen and the P+D          *)
(* contribution to the output is multiplied by 0.33; on ticks with neither *)
(* set, P+D is unattenuated and the envelope tracks |errorGyroIf|.         *)
(***************************************************************************)
C24_SaturationFreezesAndAttenuates ==
    IsRateTick =>
        LET saturated == call.pre.env.motorLimitReached
                           \/ "PID_ATTENUATE" \in call.pre.env.stateFlags
        IN  SaturationPolicy(saturated, saturated)

\* as the code has it: the envelope is frozen under ANTI_WINDUP or
\* motorLimitReached, P+D is attenuated under PID_ATTENUATE
C24_FreezeAndAttenuationSeparate ==
    IsRateTick =>
        SaturationPolicy(call.pre.env.motorLimitReached
                            \/ "ANTI_WINDUP" \in call.pre.env.stateFlags,
                         "PID_ATTENUATE" \in call.pre.env.stateFlags)

\* motors at their limit without PID_ATTENUATE: the envelope is frozen and
\* the full P+D goes out
C24_Witness ==
    /\ IsRateTick
    /\ call.pre.env.motorLimitReached
    /\ call.pre.env.stateFlags = {"SMALL_ANGLE"}
    /\ EnvelopeFrozen("ROLL") /\ ~EnvelopeTracks("ROLL")
    /\ OutputWithFactor("ROLL", 100) /\ ~OutputWithFactor("ROLL", 33)

(***************************************************************************)
(* C25: after updatePIDCoefficients, for each axis the back-calculation    *)
(* gain kT is defined (finite): kT == 0 when P8[axis] == 0 or              *)
(* I8[axis] == 0, and otherwise kT = 2/(kP/kI + kD/kP) is computed with    *)
(* nonzero divisors kP and kI and a nonzero denominator, for every         *)
(* throttle value and every dynThrPID in 0..100, including full TPA        *)
(* attenuation where the effective roll/pitch kP is (P8/40)*tpa.           *)
(***************************************************************************)
C25_BackCalculationGainDefined ==
    IsGainUpdate =>
        \A axis \in Axes :
            /\ ~IsNaN(pidState[axis].kT)
            /\ (cfg.pidProfile.P8[axis] = 0 \/ cfg.pidProfile.I8[axis] = 0) =>
                   pidState[axis].kT = Fin(0)
            /\ (cfg.pidProfile.P8[axis] # 0 /\ cfg.pidProfile.I8[axis] # 0) =>
                   pidState[axis].kP # 0 /\ pidState[axis].kI # 0

(***************************************************************************)
(* The fresh-sample handshake: the estimator raises the New flags, the     *)
(* controllers raise the Consumed flags                                    *)
(***************************************************************************)
HandshakeTickSteps == {1600, 3125, 4000}

HandshakeInputs ==
    LET flying == [BaseInput EXCEPT !.actual.pos.X = F(-400), !.actual.vel.Z = F(-40)]
    IN  {[flying EXCEPT !.flags.verticalPositionDataNew = vertical,
                        !.flags.horizontalPositionDataNew = horizontal]
            : vertical \in BOOLEAN, horizontal \in BOOLEAN}
        \cup {[flying EXCEPT !.flags.isAdjustingPosition = TRUE],
              [flying EXCEPT !.flags.hasValidAltitudeSensor = FALSE,
                             !.flags.hasValidPositionSensor = FALSE]}

HandshakeTick ==
    /\ ncalls < MaxNavCalls
    /\ \E d \in HandshakeTickSteps, in \in HandshakeInputs,
          f \in {{NAV_CTL_ALT}, {NAV_CTL_POS}, {NAV_CTL_ALT, NAV_CTL_POS}, {NAV_CTL_EMERG}} :
           NavigationTick(d, f, in)

InitHandshake == InitWith({DefaultConfig}, {0})

NextHandshake == HandshakeTick

SpecHandshake == InitHandshake /\ [][NextHandshake]_vars

\* the controller of these timestamps got past its stale-tick guard and saw the flag
Observed(times, new) == SinceUpdate(times) <= StaleLimit /\ new

VerticalSampleObserved ==
    LET flags == call.pre.posControl.flags
    IN  IF NAV_CTL_EMERG \in call.flags
        THEN /\ flags.hasValidAltitudeSensor
             /\ Observed(call.pre.emergencyTimes, flags.verticalPositionDataNew)
        ELSE /\ NAV_CTL_ALT \in call.flags
             /\ Observed(call.pre.altitudeTimes, flags.verticalPositionDataNew)

HorizontalSampleObserved ==
    LET flags == call.pre.posControl.flags
    IN  /\ NAV_CTL_EMERG \notin call.flags /\ NAV_CTL_POS \in call.flags
        /\ flags.hasValidPositionSensor
        /\ Observed(call.pre.positionTimes, flags.horizontalPositionDataNew)

(***************************************************************************)
(* C26: the altitude controller (and the emergency controller with a valid *)
(* altitude sensor) sets verticalPositionDataConsumed on exactly the ticks *)
(* that pass the stale-tick guard and observe verticalPositionDataNew,     *)
(* including ticks where the sample is rejected as too old; the position   *)
(* controller sets horizontalPositionDataConsumed on exactly the non-stale *)
(* ticks with a valid position sensor that observe                         *)
(* horizontalPositionDataNew, including bypassed ticks.  A tick that did   *)
(* not observe a New flag leaves the Consumed flag as it was, and no tick  *)
(* changes a New flag.                                                     *)
(***************************************************************************)
C26_FreshSampleHandshake ==
    IsNavCall =>
        LET before == call.pre.posControl.flags
            after == posControl.flags
        IN  /\ after.verticalPositionDataConsumed
                   = (before.verticalPositionDataConsumed \/ VerticalSampleObserved)
            /\ after.horizontalPositionDataConsumed
                   = (before.horizontalPositionDataConsumed \/ HorizontalSampleObserved)
            /\ after.verticalPositionDataNew = before.verticalPositionDataNew
            /\ after.horizontalPositionDataNew = before.horizontalPositionDataNew

\* one tick consumed a vertical sample that was too old to integrate and a
\* horizontal sample that the bypassed position controller did not use
C26_Witness ==
    /\ IsNavCall /\ call.flags = {NAV_CTL_ALT, NAV_CTL_POS}
    /\ VerticalSampleObserved /\ HorizontalSampleObserved
    /\ SincePositionUpdate(call.pre.altitudeTimes) >= StaleLimit
    /\ ~HasRun(AltitudeStages \cup PositionStages)
    /\ call.pre.posControl.flags.isAdjustingPosition
    /\ posControl.flags.verticalPositionDataConsumed
    /\ posControl.flags.horizontalPositionDataConsumed

(***************************************************************************)
(* C27: the take-off seed is one-shot.  A take-off is pending from a       *)
(* setupMulticopterAltitudeController that observed THROTTLE_LOW until the *)
(* next resetMulticopterAltitudeController; a reset leaves                 *)
(* vel[Z].integrator at -500 exactly when a take-off was pending and at 0  *)
(* otherwise, and clears the pending flag; every reset also sets           *)
(* desired.vel.Z = actual.vel.Z and rcAdjustment[THROTTLE] = 0.            *)
(***************************************************************************)
AltitudeResetRan(c) == Ran(c.log, {"resetMulticopterAltitudeController"}) # {}

TakeoffSeedStep ==
    /\ call'.op = "setupMulticopterAltitudeController" =>
           prepareForTakeoffOnReset' =
               (prepareForTakeoffOnReset \/ call'.pre.env.throttleStatus = "THROTTLE_LOW")
    /\ AltitudeResetRan(call') =>
           /\ posControl'.pids.vel.Z.integrator =
                  (IF prepareForTakeoffOnReset THEN F(-500) ELSE 0)
           /\ ~prepareForTakeoffOnReset'
           /\ posControl'.desiredState.vel.Z = posControl'.actualState.vel.Z
           /\ posControl'.rcAdjustment.THROTTLE = 0
    /\ (call'.op # "setupMulticopterAltitudeController" /\ ~AltitudeResetRan(call')) =>
           prepareForTakeoffOnReset' = prepareForTakeoffOnReset

C27_TakeoffSeedOneShot == [][TakeoffSeedStep]_vars

\* a reset right after the reset that seeded the integrator: no take-off is
\* pending any more and the seed is replaced by 0
C27_Witness ==
    /\ call.op = "resetMulticopterAltitudeController"
    /\ ~call.pre.prepareForTakeoffOnReset
    /\ call.pre.posControl.pids.vel.Z.integrator = F(-500)
    /\ posControl.pids.vel.Z.integrator = 0

(***************************************************************************)
(* C28: per rate-PID tick and axis, if ANTI_WINDUP is set or               *)
(* motorLimitReached is true, errorGyroIfLimit is left unchanged and       *)
(* errorGyroIf is clamped to [-errorGyroIfLimit, +errorGyroIfLimit];       *)
(* otherwise errorGyroIfLimit is set to |errorGyroIf| after integration.   *)
(***************************************************************************)
\* -limit <= I <= +limit on floats: false when either is NaN
WithinEnvelope(ps) ==
    /\ MagnitudeAtMost(ps.errorGyroIf, ps.errorGyroIfLimit)
    /\ Val(ps.errorGyroIfLimit) >= 0

C28_ConditionalAntiWindupEnvelope ==
    IsRateTick =>
        \A axis \in Axes :
            IF "ANTI_WINDUP" \in call.pre.env.stateFlags \/ call.pre.env.motorLimitReached
            THEN EnvelopeFrozen(axis) /\ WithinEnvelope(pidState[axis])
            ELSE IF IsNaN(pidState[axis].errorGyroIf)
                 THEN IsNaN(pidState[axis].errorGyroIfLimit)
                 ELSE EnvelopeTracks(axis)

(***************************************************************************)
(* C29: in every state reachable by pidResetErrorAccumulators and          *)
(* pidController ticks, for each axis errorGyroIfLimit >= 0 and            *)
(* |errorGyroIf| <= errorGyroIfLimit.                                      *)
(***************************************************************************)
C29_IntegratorAlwaysWithinEnvelope ==
    \A axis \in Axes :
        /\ ~IsNaN(pidState[axis].errorGyroIfLimit)
        /\ Val(pidState[axis].errorGyroIfLimit) >= 0
        /\ ~IsNaN(pidState[axis].errorGyroIf)
        /\ ABS(Val(pidState[axis].errorGyroIf)) <= Val(pidState[axis].errorGyroIfLimit)


(***************************************************************************)
(* Climbing and descending to the altitude target                          *)
(***************************************************************************)
ClimbTickSteps == {320, 1600, 3125}

\* at, just below, below, far below and above the target altitude; at rest
\* or climbing at nearly 20 m/s
ClimbInputs ==
    {[BaseInput EXCEPT !.actual.pos.Z = z, !.actual.vel.Z = v]
        : z \in {0, F(-3), F(-30), F(-2500), F(40)}, v \in {0, F(1990)}}

ClimbTick ==
    /\ ncalls < MaxNavCalls
    /\ \E d \in ClimbTickSteps, f \in {{NAV_CTL_ALT}, {NAV_CTL_EMERG}}, in \in ClimbInputs :
           NavigationTick(d, f, in)

InitClimb == InitWith({DefaultConfig}, {0})

NextClimb == ClimbTick

SpecClimb == InitClimb /\ [][NextClimb]_vars

\* the position -> velocity stage of the last call, with its time step
VelocityStageRuns == Ran(call.log, {"updateAltitudeVelocityController_MC"})

TargetVelZ ==
    constrainf(FMul(posControl.desiredState.pos.Z - posControl.actualState.pos.Z,
                    posControl.pids.pos.Z.param.kP),
               F(-2000), F(2000))

MaxVelDifference(i) == MulDt(F(250), call.log[i].arg)

(***************************************************************************)
(* C30: each run of the altitude position->velocity stage with time step   *)
(* dT changes desired.vel.Z by at most 250*dT from its previous value and  *)
(* never moves it away from                                                *)
(* targetVel = clamp((desired.Z - actual.Z)*kP_posZ, -2000, +2000); when   *)
(* targetVel is within 250*dT of the previous desired.vel.Z the new value  *)
(* equals targetVel.                                                       *)
(***************************************************************************)
C30_VelocitySetpointRamps ==
    IsNavCall =>
        \A i \in VelocityStageRuns :
            LET previous == call.pre.posControl.desiredState.vel.Z
                velZ == posControl.desiredState.vel.Z
            IN  /\ ABS(velZ - previous) <= MaxVelDifference(i)
                /\ ABS(TargetVelZ - velZ) <= ABS(TargetVelZ - previous)
                /\ (velZ - previous) * (TargetVelZ - previous) >= 0
                /\ ABS(TargetVelZ - previous) <= MaxVelDifference(i) => velZ = TargetVelZ
                /\ ABS(velZ) <= F(2000)

\* far below the target and already climbing: the set-point takes one full
\* step of 250*dT towards the saturated target of 20 m/s
C30_Witness ==
    /\ IsNavCall /\ VelocityStageRuns # {}
    /\ TargetVelZ = F(2000)
    /\ call.pre.posControl.desiredState.vel.Z > 0
    /\ \E i \in VelocityStageRuns :
           /\ MaxVelDifference(i) > 0
           /\ posControl.desiredState.vel.Z
                  = call.pre.posControl.desiredState.vel.Z + MaxVelDifference(i)

(***************************************************************************)
(* Terrain following: the pilot sets the surface target with the throttle  *)
(* stick, the range sensor comes and goes                                  *)
(***************************************************************************)
\* range sensor readings: valid at 30 cm and 120 cm, flagged invalid, out of range
SurfaceReadings ==
    {[valid |-> TRUE, surface |-> F(30)], [valid |-> TRUE, surface |-> F(120)],
     [valid |-> FALSE, surface |-> F(30)], [valid |-> TRUE, surface |-> F(-1)]}

SurfaceInputs ==
    {[BaseInput EXCEPT !.flags.isTerrainFollowEnabled = follow,
                       !.flags.hasValidSurfaceSensor = reading.valid,
                       !.actual.surface = reading.surface,
                       !.actual.surfaceMin = F(2),
                       !.actual.pos.Z = F(1000)]
        : follow \in BOOLEAN, reading \in SurfaceReadings}

SurfaceTick == \E d \in {1600, 2000}, in \in SurfaceInputs : NavigationTick(d, {NAV_CTL_ALT}, in)

SurfaceAdjust ==
    \E in \in SurfaceInputs, thr \in {1500, 1700} :
        AdjustAltitude([in EXCEPT !.rc.THROTTLE = thr, !.flags.isAdjustingAltitude = TRUE])

InitSurface == InitWith({DefaultConfig}, {0})

NextSurface == SurfaceTick \/ SurfaceAdjust

SpecSurface == InitSurface /\ [][NextSurface]_vars

SurfaceStageRuns == Ran(call.log, {"updateSurfaceTrackingAltitudeSetpoint"})

\* the climb-rate targets issued during the last call
ClimbRateTargets ==
    {call.log[i].arg : i \in Ran(call.log, {"updateAltitudeTargetFromClimbRate"})}

SurfaceTracked(pc) == pc.flags.isTerrainFollowEnabled /\ pc.desiredState.surface >= 0

SurfaceReadingValid(pc) == pc.actualState.surface >= 0 /\ pc.flags.hasValidSurfaceSensor

(***************************************************************************)
(* C31: on each run of updateSurfaceTrackingAltitudeSetpoint: if terrain   *)
(* following is disabled or desired.surface < 0, desired.pos.Z is left     *)
(* unchanged; if enabled with a valid surface reading, desired.pos.Z is    *)
(* set so that desired.pos.Z - actual.pos.Z lies in [-5, +35] cm; if       *)
(* enabled but the surface reading is invalid (sensor flag clear or        *)
(* reading < 0), a climb-rate target of -20 cm/s is issued with the        *)
(* surface target kept.                                                    *)
(***************************************************************************)
C31_SurfaceTracking ==
    (IsNavCall /\ SurfaceStageRuns # {}) =>
        LET before == call.pre.posControl
            altitudeError == posControl.desiredState.pos.Z - posControl.actualState.pos.Z
        IN  IF ~SurfaceTracked(before)
            THEN /\ posControl.desiredState.pos.Z = before.desiredState.pos.Z
                 /\ ClimbRateTargets = {}
            ELSE IF SurfaceReadingValid(before)
            THEN /\ F(-5) <= altitudeError /\ altitudeError <= F(35)
                 /\ ClimbRateTargets = {}
            ELSE /\ ClimbRateTargets = {<<F(-20), CLIMB_RATE_KEEP_SURFACE_TARGET>>}
                 /\ posControl.desiredState.surface = before.desiredState.surface
                 /\ altitudeError = Quot(F(-20) * 100, posControl.pids.pos.Z.param.kP)

\* the sensor is still lost on the tick after a tick that already descended
\* at 20 cm/s: the descent is commanded again
C31_Witness ==
    /\ IsNavCall /\ SurfaceStageRuns # {}
    /\ SurfaceTracked(call.pre.posControl) /\ ~SurfaceReadingValid(call.pre.posControl)
    /\ call.pre.posControl.desiredState.pos.Z
           = posControl.actualState.pos.Z + Quot(F(-20) * 100, posControl.pids.pos.Z.param.kP)
    /\ ClimbRateTargets # {}

(***************************************************************************)
(* Latching the heading: the pilot yaws and lets go, the navigation takes  *)
(* and returns the heading control, the compass comes and goes             *)
(***************************************************************************)
HeadingSources ==
    {[yaw |-> 0, nav |-> NAV_HEADING_CONTROL_NONE, mag |-> TRUE],
     [yaw |-> 100, nav |-> NAV_HEADING_CONTROL_NONE, mag |-> TRUE],
     [yaw |-> 0, nav |-> NAV_HEADING_CONTROL_AUTO, mag |-> TRUE],
     [yaw |-> 0, nav |-> NAV_HEADING_CONTROL_MANUAL, mag |-> TRUE],
     [yaw |-> 0, nav |-> NAV_HEADING_CONTROL_NONE, mag |-> FALSE]}

LatchInputs ==
    {[BasePidInput EXCEPT !.rc.YAW = source.yaw,
                          !.env.navHeadingState = source.nav,
                          !.env.sensorsMag = source.mag,
                          !.env.flightModes = {"MAG_MODE"},
                          !.env.attitude.YAW = heading]
        : source \in HeadingSources, heading \in {0, 1795, 3599}}

LatchTick == \E in \in LatchInputs : PidTick(in, 0)

InitLatch == InitConfigured({DefaultConfig})

NextLatch == LatchTick \/ PidReset

SpecLatch == InitLatch /\ [][NextLatch]_vars

IsRateTickOf(c, magHoldState) ==
    c.op = "pidController" /\ getMagHoldState(c.pre) = magHoldState

\* the heading pidMagHold works from is the one of the previous tick
SameHeading(c, d) ==
    DECIDEGREES_TO_DEGREES(c.pre.env.attitude.YAW) = DECIDEGREES_TO_DEGREES(d.pre.env.attitude.YAW)

(***************************************************************************)
(* C32: on every pidController tick on which getMagHoldState returns       *)
(* UPDATE_HEADING, magHoldTargetHeading equals the current heading in      *)
(* whole degrees after the tick; on ticks where it returns ENABLED or      *)
(* DISABLED, pidController leaves magHoldTargetHeading unchanged; on the   *)
(* ENABLED tick that follows an UPDATE_HEADING tick with an unchanged      *)
(* heading, the mag-hold error is 0.                                       *)
(***************************************************************************)
HeadingLatchStep ==
    /\ IsRateTickOf(call', MAG_HOLD_UPDATE_HEADING) =>
           magHoldTargetHeading' = DECIDEGREES_TO_DEGREES(call'.pre.env.attitude.YAW)
    /\ (IsRateTickOf(call', MAG_HOLD_ENABLED) \/ IsRateTickOf(call', MAG_HOLD_DISABLED)) =>
           magHoldTargetHeading' = magHoldTargetHeading
    /\ (/\ IsRateTickOf(call, MAG_HOLD_UPDATE_HEADING)
        /\ IsRateTickOf(call', MAG_HOLD_ENABLED)
        /\ SameHeading(call, call')) =>
           MagHoldError(call'.pre) = 0

C32_HeadingLatched == [][HeadingLatchStep]_vars

\* heading 179.5 degrees latched as 179 while the pilot yawed, then held
C32_Witness ==
    /\ IsRateTickOf(call, MAG_HOLD_ENABLED)
    /\ call.pre.env.attitude.YAW = 1795
    /\ magHoldTargetHeading = 179
    /\ call.pre.magHoldTargetHeading = 179
    /\ pidState["YAW"].rateTarget = 0

(***************************************************************************)
(* Altitude hold with the pilot on the throttle stick                      *)
(***************************************************************************)
\* the default configuration, a high idle with the widest deadband, and a
\* fast climb with the zero at mid throttle
ClimbConfigs ==
    {DefaultConfig,
     [DefaultConfig EXCEPT !.minthrottle = 1300, !.alt_hold_deadband = 250],
     [DefaultConfig EXCEPT !.max_manual_climb_rate = 500, !.use_thr_mid_for_althold = TRUE]}

\* the stick at the ends of the throttle range and of its travel, at the
\* zero, and at and just beyond the edges of the deadband
ThrottleSticks ==
    {1000, cfg.minthrottle,
     altHoldThrottleRCZero - cfg.alt_hold_deadband - 1,
     altHoldThrottleRCZero - cfg.alt_hold_deadband,
     altHoldThrottleRCZero,
     altHoldThrottleRCZero + cfg.alt_hold_deadband,
     altHoldThrottleRCZero + cfg.alt_hold_deadband + 1,
     cfg.maxthrottle, 2000}

AdjustTick ==
    \E thr \in ThrottleSticks, adjusting \in BOOLEAN :
        AdjustAltitude([BaseInput EXCEPT !.rc.THROTTLE = thr,
                                         !.flags.isAdjustingAltitude = adjusting,
                                         !.actual.pos.Z = F(1000)])

AdjustSetup ==
    \E ts \in {"THROTTLE_LOW", "THROTTLE_HIGH"}, thr \in {1000, 1800} :
        SetupAltitude([BaseInput EXCEPT !.env.throttleStatus = ts, !.rc.THROTTLE = thr])

InitAdjust == InitWith(ClimbConfigs, {0})

NextAdjust == AdjustTick \/ AdjustSetup

SpecAdjust == InitAdjust /\ [][NextAdjust]_vars

IsAdjustCall == call.op = "adjustMulticopterAltitudeFromRCInput"

StickDeflection == call.pre.rcCommand.THROTTLE - call.pre.altHoldThrottleRCZero

(***************************************************************************)
(* C33: adjustMulticopterAltitudeFromRCInput: when                         *)
(* |rcCommand[THROTTLE] - altHoldThrottleRCZero| > alt_hold_deadband it    *)
(* issues a climb-rate command and returns true; when the stick is within  *)
(* the deadband it returns false and issues a zero climb-rate command      *)
(* (locking the current altitude) if and only if isAdjustingAltitude is    *)
(* set; the altitude target is left untouched on in-deadband calls when no *)
(* adjustment was in progress.                                             *)
(***************************************************************************)
C33_AltitudeLockedOnRelease ==
    IsAdjustCall =>
        IF ABS(StickDeflection) > cfg.alt_hold_deadband
        THEN /\ call.result = TRUE
             /\ \E rate \in ClimbRateTargets : ClimbRateTargets = {rate}
        ELSE /\ call.result = FALSE
             /\ IF call.pre.posControl.flags.isAdjustingAltitude
                THEN /\ ClimbRateTargets = {<<0, CLIMB_RATE_UPDATE_SURFACE_TARGET>>}
                     /\ posControl.desiredState.pos.Z = posControl.actualState.pos.Z
                ELSE /\ ClimbRateTargets = {}
                     /\ posControl.desiredState = call.pre.posControl.desiredState

\* the stick is back in the deadband after a climb: the target, which was
\* above the vehicle, is set to the current altitude
C33_Witness ==
    /\ IsAdjustCall
    /\ ABS(StickDeflection) <= cfg.alt_hold_deadband
    /\ call.pre.posControl.flags.isAdjustingAltitude
    /\ call.pre.posControl.desiredState.pos.Z > posControl.actualState.pos.Z
    /\ posControl.desiredState.pos.Z = posControl.actualState.pos.Z

(***************************************************************************)
(* C34: for every rcCommand[THROTTLE] in [minthrottle, maxthrottle]        *)
(* outside the deadband, the climb rate commanded by                       *)
(* adjustMulticopterAltitudeFromRCInput has the sign of the stick          *)
(* deflection and magnitude at most max_manual_climb_rate, reaching        *)
(* max_manual_climb_rate at maxthrottle (upward) and at minthrottle        *)
(* (downward); with altHoldThrottleRCZero within                           *)
(* [minthrottle + alt_hold_deadband + 10,                                  *)
(*  maxthrottle - alt_hold_deadband - 10], neither scaling divisor         *)
(* (maxthrottle - RCZero, RCZero - minthrottle) is zero or negative.       *)
(***************************************************************************)
\* the zero the call worked from satisfies the range invariant
ZeroWasInRange ==
    /\ ThrottleZeroMin <= call.pre.altHoldThrottleRCZero
    /\ call.pre.altHoldThrottleRCZero <= ThrottleZeroMax

IsClimbCommand ==
    /\ IsAdjustCall /\ call.result = TRUE
    /\ cfg.minthrottle <= call.pre.rcCommand.THROTTLE
    /\ call.pre.rcCommand.THROTTLE <= cfg.maxthrottle
    /\ ZeroWasInRange

PidStage(nav, env) ==
    [PidMachine(env @@ [nanAsInt16 |-> 0])
        EXCEPT !.rcCommand = nav.rcCommand,
               !.magHoldTargetHeading = nav.magHoldTargetHeading]

CommitLoop(navStateFlags, currentTime, pre, nav, pm, post) ==
    /\ Commit([nav EXCEPT !.rcCommand = post.rcCommand,
                          !.magHoldTargetHeading = post.magHoldTargetHeading])
    /\ pidState' = post.pidState
    /\ axisPID' = post.axisPID
    /\ tpaFactor' = post.tpaFactor
    /\ magHoldRateFilter' = post.magHoldRateFilter
    /\ call' = [CallRecord("loop", navStateFlags, currentTime, pre, nav, FALSE)
                   EXCEPT !.result = [afterNavigation |-> nav.magHoldTargetHeading,
                                      magHoldState |-> getMagHoldState(pm),
                                      env |-> pm.env, rcCommand |-> pm.rcCommand]]

RunPidStage(navStateFlags, currentTime, pre, nav, pm) ==
    CommitLoop(navStateFlags, currentTime, pre, nav, pm, pidController(pm))

RunLoop(navStateFlags, currentTime, pre, nav, env) ==
    RunPidStage(navStateFlags, currentTime, pre, nav, PidStage(nav, env))

LoopTick(d, navStateFlags, in, pin) ==
    /\ ncalls < MaxNavCalls
    /\ RunLoop(navStateFlags, (uptime + d) % ClockWrap, Ingest(in, navStateFlags),
               applyMulticopterNavigationController(Ingest(in, navStateFlags), navStateFlags,
                                                    (uptime + d) % ClockWrap),
               pin.env)
    /\ uptime' = uptime + d
    /\ ncalls' = ncalls + 1
    /\ UNCHANGED <<cfg, landVars>>

\* heading east, the navigation wants south
HeadingNavInput == [BaseInput EXCEPT !.desiredYaw = 18000, !.actual.yaw = 9000]

HeadingPidInputs ==
    {[BasePidInput EXCEPT !.env.attitude.YAW = 900,
                          !.env.navHeadingState = nav,
                          !.env.flightModes = IF magMode THEN {"MAG_MODE"} ELSE {}]
        : nav \in {NAV_HEADING_CONTROL_NONE, NAV_HEADING_CONTROL_AUTO,
                   NAV_HEADING_CONTROL_MANUAL},
          magMode \in BOOLEAN}

HeadingTick ==
    \E f \in {{}, {NAV_CTL_YAW}, {NAV_CTL_YAW, NAV_CTL_EMERG}, {NAV_CTL_ALT, NAV_CTL_POS, NAV_CTL_YAW}},
       yaw \in {0, 100}, pin \in HeadingPidInputs :
        LoopTick(1600, f, [HeadingNavInput EXCEPT !.rc.YAW = yaw], pin)

InitHeading == InitConfigured({DefaultConfig})

NextHeading == HeadingTick

SpecHeading == InitHeading /\ [][NextHeading]_vars

IsLoop == call.op = "loop"

\* the stages of the last pass that wrote magHoldTargetHeading
NavigationWroteHeading == Ran(call.log, {"applyMulticopterHeadingController"}) # {}

PidWroteHeading == call.result.magHoldState = MAG_HOLD_UPDATE_HEADING

\* the pilot, or the navigation on the pilot's behalf, is turning the craft
HeadingUnderManualControl ==
    \/ call.result.env.navHeadingState = NAV_HEADING_CONTROL_MANUAL
    \/ /\ call.result.env.navHeadingState = NAV_HEADING_CONTROL_NONE
       /\ (ABS(call.result.rcCommand.YAW) >= 15 \/ "MAG_MODE" \notin call.result.env.flightModes)

(***************************************************************************)
(* C35: within one tick (navigation stage followed by the PID stage),      *)
(* magHoldTargetHeading is written by at most one stage: if the navigation *)
(* heading controller (NAV_CTL_YAW set, NAV_CTL_EMERG clear) writes the    *)
(* target from desired.yaw, pidController does not overwrite it with the   *)
(* current heading in the same tick.                                       *)
(***************************************************************************)
C35_SingleHeadingWriter ==
    (IsLoop /\ NavigationWroteHeading) =>
        /\ ~PidWroteHeading
        /\ magHoldTargetHeading = CENTIDEGREES_TO_DEGREES(posControl.desiredState.yaw)

\* C35 as amended: the navigation heading controller runs exactly when
\* NAV_CTL_YAW is set and NAV_CTL_EMERG is clear; its target stands at the
\* end of the tick unless the heading is under manual control (navigation
\* heading control MANUAL, or NONE with the yaw stick deflected or MAG_MODE
\* off), in which case pidController replaces it with the current heading.
C35_HeadingWrittenLast ==
    IsLoop =>
        /\ NavigationWroteHeading
               = (NAV_CTL_YAW \in call.flags /\ NAV_CTL_EMERG \notin call.flags)
        /\ magHoldTargetHeading =
               (IF HeadingUnderManualControl
                THEN DECIDEGREES_TO_DEGREES(call.result.env.attitude.YAW)
                ELSE IF NavigationWroteHeading
                THEN CENTIDEGREES_TO_DEGREES(posControl.desiredState.yaw)
                ELSE call.pre.magHoldTargetHeading)

\* both stages wrote: the navigation asked for south, the pilot is yawing,
\* and the target is the current heading, east
C35_Witness ==
    /\ IsLoop /\ NavigationWroteHeading /\ PidWroteHeading
    /\ call.result.afterNavigation = 180
    /\ magHoldTargetHeading = 90

(***************************************************************************)
(* C36: on every non-stale position tick that is not bypassed (valid       *)
(* position sensor, and not GPS_ATTI with the pilot adjusting), with or    *)
(* without a fresh position sample, rcCommand[ROLL] and rcCommand[PITCH]   *)
(* are pidAngleToRcCommand(rcAdjustment[axis]) after the tick; the angle   *)
(* the inner loop reconstructs from them, 2 * rcCommand, is at most        *)
(* |rcAdjustment[axis]| in magnitude and so at most mc_max_bank_angle in   *)
(* decidegrees.                                                            *)
(***************************************************************************)
IsBankCommandCall ==
    /\ IsNavCall /\ PositionRuns
    /\ SinceUpdate(call.pre.positionTimes) <= StaleLimit
    /\ call.pre.posControl.flags.hasValidPositionSensor
    /\ ~(cfg.user_control_mode = NAV_GPS_ATTI /\ call.pre.posControl.flags.isAdjustingPosition)

BankCommandWritten(axis) ==
    /\ rcCommand[axis] = pidAngleToRcCommand(posControl.rcAdjustment[axis])
    /\ ABS(pidRcCommandToAngle(rcCommand[axis])) <= ABS(posControl.rcAdjustment[axis])
    /\ ABS(pidRcCommandToAngle(rcCommand[axis])) <= MaxBankDeciDegrees

C36_BankCommandFromAdjustment ==
    IsBankCommandCall => BankCommandWritten("ROLL") /\ BankCommandWritten("PITCH")

\* a tick without a fresh sample replaces the pilot's sticks by the halved,
\* truncated angle that an earlier tick computed
C36_Witness ==
    /\ IsBankCommandCall
    /\ ~call.pre.posControl.flags.horizontalPositionDataNew
    /\ posControl.rcAdjustment.PITCH % 2 = 1
    /\ posControl.rcAdjustment.PITCH = call.pre.posControl.rcAdjustment.PITCH
    /\ call.pre.rcCommand.PITCH # rcCommand.PITCH
    /\ ABS(pidRcCommandToAngle(rcCommand.PITCH)) < ABS(posControl.rcAdjustment.PITCH)

(***************************************************************************)
(* Heading lock                                                            *)
(***************************************************************************)
\* a 50 Hz loop with the airframe spun about the yaw axis at 1000 dps: the yaw
\* stick centred, just inside and just outside 2 dps, armed and disarmed, with
\* and without HEADING_LOCK and compass hold
HeadingLockInputs ==
    LET spun == [BasePidInput EXCEPT !.env.dT = 20000, !.env.gyroRate.YAW = F(-1000),
                                     !.env.flightModes = {"HEADING_LOCK"}]
    IN  {spun,
         [spun EXCEPT !.rc.YAW = 2, !.env.rcData.YAW = 1502, !.env.gyroRate.YAW = F(1000)],
         [spun EXCEPT !.rc.YAW = -2, !.env.rcData.YAW = 1498, !.env.gyroRate.YAW = F(10)],
         [spun EXCEPT !.rc.YAW = 3, !.env.rcData.YAW = 1503],
         [spun EXCEPT !.env.armed = FALSE],
         [spun EXCEPT !.env.flightModes = {"HEADING_LOCK", "MAG_MODE"}, !.env.attitude.YAW = 900],
         [spun EXCEPT !.env.flightModes = {"HEADING_LOCK", "MAG_MODE"},
                      !.rc.YAW = 20, !.env.rcData.YAW = 1520],
         [spun EXCEPT !.env.flightModes = {"ANGLE_MODE"}]}

HeadingLockTick == \E in \in HeadingLockInputs : PidTick(in, 0)

\* the yaw rate integrator switched off
HeadingLockConfigs == {[DefaultConfig EXCEPT !.pidProfile.I8.YAW = 0]}

InitLock == InitConfigured(HeadingLockConfigs)

NextLock == HeadingLockTick \/ PidReset

SpecLock == InitLock /\ [][NextLock]_vars

(***************************************************************************)
(* C37: |axisLockAccum| <= 45 in every reachable state.  On a tick with    *)
(* HEADING_LOCK active and mag-hold not ENABLED the accumulator is reset   *)
(* to 0 if the craft is disarmed or the yaw |rateTarget| > 2 dps, the rate *)
(* target being left as it is; otherwise the accumulator integrates        *)
(* (rateTarget - gyroRate) * dT and the yaw rate target becomes            *)
(* accum * P8[PIDMAG] / 80.  On ticks with mag-hold ENABLED or without     *)
(* HEADING_LOCK the accumulator is not modified.                           *)
(***************************************************************************)
\* the yaw rate that the stick asks for, as step 2 of pidController leaves it
StickYawRate ==
    constrainf(pidRcCommandToRate(call.pre.rcCommand.YAW, cfg.controlRateConfig.rates.YAW),
               -F(GYRO_SATURATION_LIMIT), F(GYRO_SATURATION_LIMIT))

HeadingLockRuns ==
    /\ "HEADING_LOCK" \in call.pre.env.flightModes
    /\ getMagHoldState(call.pre) # MAG_HOLD_ENABLED

HeadingLockReleased == ~call.pre.env.armed \/ ABS(StickYawRate) > F(2)

IntegratedHeadingError ==
    call.pre.pidState["YAW"].axisLockAccum
        + TimesDT(StickYawRate - call.pre.env.gyroRate.YAW, call.pre.env.dT)

C37_HeadingLockAccumulator ==
    /\ ABS(pidState["YAW"].axisLockAccum) <= F(45)
    /\ call.op = "pidController" =>
          IF ~HeadingLockRuns
          THEN pidState["YAW"].axisLockAccum = call.pre.pidState["YAW"].axisLockAccum
          ELSE IF HeadingLockReleased
          THEN /\ pidState["YAW"].axisLockAccum = 0
               /\ pidState["YAW"].rateTarget = StickYawRate
          ELSE /\ pidState["YAW"].axisLockAccum
                      = constrainf(IntegratedHeadingError, F(-45), F(45))
               /\ pidState["YAW"].rateTarget
                      = Quot(pidState["YAW"].axisLockAccum * cfg.pidProfile.P8["PIDMAG"], 80)

\* the integrated heading error passes 45 degrees and is held there
C37_Witness ==
    /\ call.op = "pidController" /\ HeadingLockRuns /\ ~HeadingLockReleased
    /\ call.pre.pidState["YAW"].axisLockAccum # 0
    /\ IntegratedHeadingError > F(45)
    /\ pidState["YAW"].axisLockAccum = F(45)
    /\ pidState["YAW"].rateTarget # StickYawRate

(***************************************************************************)
(* The microsecond clock wrapping                                          *)
(***************************************************************************)
\* micros() at the first call: just after boot, and shortly before the wrap
WrapBootTimes == {0, ClockWrap - 2000, ClockWrap - 20000}

\* at, just above and below the stale threshold
WrapTickSteps == {1600, 3125, 3126}

WrapControllers == {{NAV_CTL_ALT}, {NAV_CTL_POS}, {NAV_CTL_ALT, NAV_CTL_EMERG}}

\* every tick brings fresh samples of valid sensors
WrapTick ==
    \E d \in WrapTickSteps, flags \in WrapControllers : NavigationTick(d, flags, BaseInput)

\* on the ground with the throttle low, still or sliding
WrapPoll ==
    \E d \in PollSteps, velXY \in {0, F(150)} :
        LandingPoll(d, [BaseInput EXCEPT !.rc.THROTTLE = 1000, !.actual.velXY = velXY])

InitWrap == InitWith({DefaultConfig}, WrapBootTimes)

NextWrap == WrapTick \/ WrapPoll

SpecWrap == InitWrap /\ [][NextWrap]_vars

(***************************************************************************)
(* C38: stale-tick detection in the altitude, position and emergency       *)
(* controllers and the land-detector timer are unaffected by the           *)
(* microsecond clock wrapping at 2^32 between two calls: a call d          *)
(* microseconds after the reference time is treated as stale, or as past   *)
(* the landing trigger time, exactly when d exceeds the threshold.         *)
(***************************************************************************)
\* the controller that a tick with the given navigation flags runs
ControllerOf(flags) ==
    IF NAV_CTL_EMERG \in flags THEN "emergency"
    ELSE IF NAV_CTL_ALT \in flags THEN "altitude"
    ELSE IF NAV_CTL_POS \in flags THEN "position"
    ELSE "none"

\* the stale branch: a reset, and the fresh sample left unconsumed
TreatedAsStale(c, pc) ==
    IF ControllerOf(c.flags) = "position"
    THEN /\ Ran(c.log, {"resetMulticopterPositionController"}) # {}
         /\ ~pc.flags.horizontalPositionDataConsumed
    ELSE /\ Ran(c.log, {"resetMulticopterAltitudeController"}) # {}
         /\ ~pc.flags.verticalPositionDataConsumed

\* two consecutive calls of one controller: the first call's time is the
\* reference of the second, which comes uptime' - uptime clock ticks later
ConsecutiveTicks ==
    /\ call.op = "applyMulticopterNavigationController"
    /\ call'.op = "applyMulticopterNavigationController"
    /\ ControllerOf(call.flags) = ControllerOf(call'.flags)

WrapStep ==
    /\ ConsecutiveTicks =>
          (TreatedAsStale(call', posControl') <=> uptime' - uptime > StaleLimit)
    /\ (call'.op = "isMulticopterLandingDetected"
           /\ LandingConditionsHold(call'.pre.posControl.actualState,
                                    call'.pre.posControl.flags,
                                    call'.pre.rcCommandAdjustedThrottle)) =>
          (call'.result <=> TICKS2US(uptime' - lastViolation)
                               > LAND_DETECTOR_TRIGGER_TIME_MS * 1000)

C38_TimingUnaffectedByWrap == [][WrapStep]_vars

\* the counter wrapped between two calls exactly the threshold apart: the
\* second call is not stale and consumes its sample
C38_Witness ==
    /\ IsNavCall /\ ControllerOf(call.flags) = "altitude"
    /\ call.time < call.pre.altitudeTimes.previousTimeUpdate
    /\ call.time + ClockWrap - call.pre.altitudeTimes.previousTimeUpdate = StaleLimit
    /\ posControl.flags.verticalPositionDataConsumed

====
